---- MODULE Spec2Model ----
(***************************************************************************)
(* Verification model of treasury-sentinel: the Kaiko metering gateway,    *)
(* the budget enforcer, the settlement verifier, the escalation state      *)
(* machines, the agent runner, the 402 handler, the retry and circuit      *)
(* breaker services, the guard lock, the volatility regime and the event   *)
(* emitter.  Money is modelled exactly, in integer units (the unit is      *)
(* stated with each component); the source uses IEEE doubles.  Each        *)
(* component has its own specification (SpecKaiko, SpecBudget, ...); the   *)
(* variables of the other components stay at their initial value.          *)
(***************************************************************************)
EXTENDS Integers, Sequences, FiniteSets, TLC

VARIABLES
  kBudget,        \* KaikoGateway.budget
  kPending,       \* KaikoGateway.pendingPayments : invoiceId -> invoice
  kCompleted,     \* KaikoGateway.completedPayments
  kCalls,         \* KaikoGateway calls suspended at an await
  kNextInvoice,   \* next fresh invoice id (create402Response)
  kNow,           \* wall clock seen by the gateway
  kLast,          \* what the last finished gateway call returned
  beSpent,        \* BudgetEnforcer.spent
  beLocked,       \* BudgetEnforcer.locked
  beLockPromise,  \* BudgetEnforcer.lockPromise is set (FALSE = null)
  beCallers,      \* the calls in progress on the enforcer
  beLast,         \* what the last finished enforcer call returned
  svSettlements,  \* SettlementVerifier.pendingSettlements (and detached objects)
  svVerifiedTx,   \* SettlementVerifier.verifiedTransactions
  svCalls,        \* verifier calls in progress
  svNow,          \* Date.now() seen by the verifier
  svBlock,        \* current block number of the Base chain
  svLast,         \* what the last finished verifier call returned
  escMachine,     \* which state-machine implementation is instantiated
  escNow,         \* new Date() / Date.now() seen by the state machines
  aConfig,        \* StateMachineConfig given to the constructor (EscalationStateMachine.ts)
  aCurrentState,  \* EscalationStateMachine.currentState (EscalationStateMachine.ts)
  aTransitionHistory, \* EscalationStateMachine.transitionHistory
  aBudgetUsed,    \* EscalationStateMachine.budgetUsed
  aLast,          \* the StateTransitionResult of the last call
  cConfig,        \* EscalationStateMachine.config (transitions.ts)
  cCurrentState,  \* EscalationStateMachine.currentState (transitions.ts)
  cHistory,       \* EscalationStateMachine.history (transitions.ts)
  cLast,          \* how the last call on the transitions.ts machine ended
  eLast,          \* arguments and TransitionResult of the last canTransition call
  gLast,          \* arguments and GuardResult of the last guard evaluation
  arRuns,         \* rows of the table agent_runs, in insertion order
  arCalls,        \* AgentRunner calls suspended at an await
  hLast,          \* arguments and result of the last Http402Handler.verifySettlement
  rConfig,        \* RetryableService.retryConfig
  rCall,          \* the withRetry call in progress
  rLast,          \* the RetryResult of the last withRetry call
  guardEvaluationLock, \* guards.ts: the module's lock flag
  lockQueue,      \* guards.ts: the callers whose resolver is queued
  glCalls,        \* each caller's evaluateGuardsWithLock call
  glQueued,       \* history: the callers in the order they were queued
  glAdmitted,     \* history: the queued callers in the order they were resolved
  glStarted,      \* number of evaluateGuardsWithLock calls so far
  glLast,         \* the caller and outcome of the last guard evaluation
  lmThresholds,   \* LiquidityMetrics.volatilityThresholds
  lmLast,         \* argument and result of the last detectVolatilityRegime call
  eeSubscriptions, \* TreasurySentinelEventEmitter.subscriptions
  eeEmits,        \* the emit calls in progress
  eeInvoked,      \* history: per subscription id, once or not and the calls made
  eeEmitted,      \* number of emit calls so far
  cb,             \* the fields of CircuitBreakerService
  cbNow,          \* Date.now() seen by the circuit breaker
  cbCalls,        \* the withCircuitBreaker calls: idle or awaiting the operation
  cbStarted,      \* number of withCircuitBreaker calls so far
  cbRun,          \* history: successes since the last failure, reset or half-open
  cbLast          \* the last operation on the circuit breaker and how it ended

kaikoVars == <<kBudget, kPending, kCompleted, kCalls, kNextInvoice, kNow, kLast>>

budgetVars == <<beSpent, beLocked, beLockPromise, beCallers, beLast>>

verifierVars == <<svSettlements, svVerifiedTx, svCalls, svNow, svBlock, svLast>>

machineAVars == <<aConfig, aCurrentState, aTransitionHistory, aBudgetUsed, aLast>>

machineCVars == <<cConfig, cCurrentState, cHistory, cLast>>

tableVars == <<eLast, gLast>>

escVars == <<escMachine, escNow, machineAVars, machineCVars, tableVars>>

runnerVars == <<arRuns, arCalls>>

http402Vars == <<hLast>>

retryVars == <<rConfig, rCall, rLast>>

guardLockVars == <<guardEvaluationLock, lockQueue, glCalls, glQueued, glAdmitted,
                   glStarted, glLast>>

metricsVars == <<lmThresholds, lmLast>>

eventEmitterVars == <<eeSubscriptions, eeEmits, eeInvoked, eeEmitted>>

circuitVars == <<cb, cbNow, cbCalls, cbStarted, cbRun, cbLast>>

vars == <<kaikoVars, budgetVars, verifierVars, escVars, runnerVars, http402Vars,
          retryVars, guardLockVars, metricsVars, eventEmitterVars, circuitVars>>

\* the frame of each component: the variables of all the others
notCircuit ==
  <<kaikoVars, budgetVars, verifierVars, escVars, runnerVars,
    http402Vars, retryVars, guardLockVars, metricsVars, eventEmitterVars>>
notEventEmitter ==
  <<kaikoVars, budgetVars, verifierVars, escVars, runnerVars,
    http402Vars, retryVars, guardLockVars, metricsVars, circuitVars>>
notMetrics ==
  <<kaikoVars, budgetVars, verifierVars, escVars, runnerVars,
    http402Vars, retryVars, guardLockVars, eventEmitterVars, circuitVars>>
notKaiko ==
  <<budgetVars, verifierVars, escVars, runnerVars, http402Vars,
    retryVars, guardLockVars, metricsVars, eventEmitterVars, circuitVars>>
notBudget ==
  <<kaikoVars, verifierVars, escVars, runnerVars, http402Vars,
    retryVars, guardLockVars, metricsVars, eventEmitterVars, circuitVars>>
notVerifier ==
  <<kaikoVars, budgetVars, escVars, runnerVars, http402Vars,
    retryVars, guardLockVars, metricsVars, eventEmitterVars, circuitVars>>
notEsc ==
  <<kaikoVars, budgetVars, verifierVars, runnerVars, http402Vars,
    retryVars, guardLockVars, metricsVars, eventEmitterVars, circuitVars>>
notHttp402 ==
  <<kaikoVars, budgetVars, verifierVars, escVars, runnerVars,
    retryVars, guardLockVars, metricsVars, eventEmitterVars, circuitVars>>
notRetry ==
  <<kaikoVars, budgetVars, verifierVars, escVars, runnerVars,
    http402Vars, guardLockVars, metricsVars, eventEmitterVars, circuitVars>>
notGuardLock ==
  <<kaikoVars, budgetVars, verifierVars, escVars, runnerVars,
    http402Vars, retryVars, metricsVars, eventEmitterVars, circuitVars>>
notRunner ==
  <<kaikoVars, budgetVars, verifierVars, escVars, http402Vars,
    retryVars, guardLockVars, metricsVars, eventEmitterVars, circuitVars>>

Max(a, b) == IF a >= b THEN a ELSE b
Min(a, b) == IF a <= b THEN a ELSE b

(***************************************************************************)
(* KaikoGateway (unit: 1 cent = 0.01 USDC; time unit: 15 minutes)          *)
(***************************************************************************)
KaikoBudgetLimit == 12     \* config.budgetLimitUsdc, in cents
MaxInvoices == 2           \* invoices minted in one behaviour
MaxKaikoCalls == 2         \* gateway calls suspended at the same time
MaxKaikoTime == 2          \* clock ticks in one behaviour
INVOICE_TTL == 1           \* 15 * 60 * 1000 ms

KaikoDataTypes == {"spot_price", "order_book", "liquidity_depth"}
KaikoTxHashes == {"0xA", "0xB"}

estimateCost(dataType) ==
  CASE dataType = "spot_price" -> 1
    [] dataType = "ohlcv" -> 2
    [] dataType = "vwap" -> 2
    [] dataType = "trades" -> 5
    [] dataType = "order_book" -> 10
    [] dataType = "liquidity_depth" -> 25
    [] OTHER -> 5

canAfford(budget, amountUsdc) ==
  ~budget.isBlocked /\ budget.remainingUsdc >= amountUsdc

Kaiko_recordSpend(budget, amountUsdc) ==
  LET spent == budget.spentUsdc + amountUsdc
      remaining == budget.totalBudgetUsdc - spent
  IN [budget EXCEPT !.spentUsdc = spent,
                    !.remainingUsdc = remaining,
                    !.paymentCount = @ + 1,
                    !.isBlocked = IF remaining <= 0 THEN TRUE ELSE @]

KaikoFreshBudget ==
  [totalBudgetUsdc |-> KaikoBudgetLimit, spentUsdc |-> 0,
   remainingUsdc |-> KaikoBudgetLimit, isBlocked |-> FALSE, paymentCount |-> 0]

KaikoInit ==
  /\ kBudget = KaikoFreshBudget
  /\ kPending = <<>>
  /\ kCompleted = <<>>
  /\ kCalls = {}
  /\ kNextInvoice = 1
  /\ kNow = 0
  /\ kLast = "none"

\* makeDataRequest up to its await of executeApiCall; executeApiCall itself
\* runs without suspending and either spends or throws the 402 response.
makeDataRequest(dataType) ==
  LET cost == estimateCost(dataType) IN
  IF kBudget.isBlocked
  THEN /\ kLast' = "budget_blocked"
       /\ UNCHANGED <<kBudget, kPending, kCompleted, kCalls, kNextInvoice, kNow>>
  ELSE IF canAfford(kBudget, cost)
  THEN /\ kBudget' = Kaiko_recordSpend(kBudget, cost)
       /\ kLast' = "data"
       /\ UNCHANGED <<kPending, kCompleted, kCalls, kNextInvoice, kNow>>
  ELSE /\ kNextInvoice <= MaxInvoices
       /\ Cardinality(kCalls) < MaxKaikoCalls
       /\ kCalls' = kCalls \cup
            {[op |-> "402", invoiceId |-> kNextInvoice, tx |-> "",
              requiredAmountUsdc |-> cost, expiresAt |-> kNow + INVOICE_TTL]}
       /\ kNextInvoice' = kNextInvoice + 1
       /\ kLast' = "awaiting"
       /\ UNCHANGED <<kBudget, kPending, kCompleted, kNow>>

fetchSpotPrice == makeDataRequest("spot_price") /\ UNCHANGED notKaiko
fetchOrderBook == makeDataRequest("order_book") /\ UNCHANGED notKaiko
fetchLiquidityDepth == makeDataRequest("liquidity_depth") /\ UNCHANGED notKaiko

\* the catch block of makeDataRequest, run when the rejected await resumes
handlePaymentRequired ==
  \E c \in kCalls :
    /\ c.op = "402"
    /\ kCalls' = kCalls \ {c}
    /\ kPending' = [i \in (DOMAIN kPending) \cup {c.invoiceId} |->
                      IF i = c.invoiceId
                      THEN [requiredAmountUsdc |-> c.requiredAmountUsdc,
                            expiresAt |-> c.expiresAt]
                      ELSE kPending[i]]
    /\ IF ~canAfford(kBudget, c.requiredAmountUsdc)
       THEN /\ kBudget' = [kBudget EXCEPT !.isBlocked = TRUE]
            /\ kLast' = "insufficient_budget"
       ELSE /\ kBudget' = kBudget
            /\ kLast' = "payment_required"
    /\ UNCHANGED <<kCompleted, kNextInvoice, kNow>>
    /\ UNCHANGED notKaiko

verifyOnChainPayment(transactionHash, expectedAmount) == TRUE

\* submitPayment up to its await of verifyOnChainPayment
submitPayment ==
  \E invoiceId \in 1..MaxInvoices, tx \in KaikoTxHashes :
    /\ UNCHANGED notKaiko
    /\ IF invoiceId \notin DOMAIN kPending
       THEN /\ kLast' = "invoice_not_found"
            /\ UNCHANGED <<kBudget, kPending, kCompleted, kCalls, kNextInvoice, kNow>>
       ELSE IF kNow > kPending[invoiceId].expiresAt
       THEN /\ kPending' = [i \in (DOMAIN kPending) \ {invoiceId} |-> kPending[i]]
            /\ kLast' = "invoice_expired"
            /\ UNCHANGED <<kBudget, kCompleted, kCalls, kNextInvoice, kNow>>
       ELSE /\ Cardinality(kCalls) < MaxKaikoCalls
            /\ kCalls' = kCalls \cup
                 {[op |-> "submit", invoiceId |-> invoiceId, tx |-> tx,
                   requiredAmountUsdc |-> kPending[invoiceId].requiredAmountUsdc,
                   expiresAt |-> kPending[invoiceId].expiresAt]}
            /\ kLast' = "awaiting"
            /\ UNCHANGED <<kBudget, kPending, kCompleted, kNextInvoice, kNow>>

\* submitPayment after the await: receipt, delete, recordSpend
submitPaymentResume ==
  \E c \in kCalls :
    /\ c.op = "submit"
    /\ kCalls' = kCalls \ {c}
    /\ IF ~verifyOnChainPayment(c.tx, c.requiredAmountUsdc)
       THEN /\ kLast' = "verification_failed"
            /\ UNCHANGED <<kBudget, kPending, kCompleted>>
       ELSE /\ kCompleted' = Append(kCompleted,
                 [invoiceId |-> c.invoiceId, transactionHash |-> c.tx,
                  amountUsdc |-> c.requiredAmountUsdc])
            /\ kPending' = [i \in (DOMAIN kPending) \ {c.invoiceId} |-> kPending[i]]
            /\ kBudget' = Kaiko_recordSpend(kBudget, c.requiredAmountUsdc)
            /\ kLast' = "paid"
    /\ UNCHANGED <<kNextInvoice, kNow>>
    /\ UNCHANGED notKaiko

resetBudget ==
  /\ kBudget' = KaikoFreshBudget
  /\ kCompleted' = <<>>
  /\ kPending' = <<>>
  /\ kLast' = "reset"
  /\ UNCHANGED <<kCalls, kNextInvoice, kNow>>
  /\ UNCHANGED notKaiko

KaikoTick ==
  /\ kNow < MaxKaikoTime
  /\ kNow' = kNow + 1
  /\ UNCHANGED <<kBudget, kPending, kCompleted, kCalls, kNextInvoice, kLast>>
  /\ UNCHANGED notKaiko

KaikoNext ==
  \/ fetchSpotPrice
  \/ fetchOrderBook
  \/ fetchLiquidityDepth
  \/ handlePaymentRequired
  \/ submitPayment
  \/ submitPaymentResume
  \/ resetBudget
  \/ KaikoTick


(***************************************************************************)
(* BudgetEnforcer (unit: 1 cent = 0.01 USDC)                               *)
(***************************************************************************)
BE_maxBudgetUSDC == 8       \* config.maxBudgetUSDC, in cents (default 10 USDC)
BE_warningThresholdPercent == 80
BE_criticalThresholdPercent == 95
NumBudgetCallers == 2      \* concurrent callers of the enforcer
BE_SpentFloor == 1         \* calls that would take spent below -floor are not made

BudgetCallers == 1..NumBudgetCallers
BE_Amounts == {-1, 1, BE_maxBudgetUSDC + 1}
BE_Ops == {"canSpend", "recordSpend", "getStatus", "reset", "setSpent"}

BE_getStateUnsafe(spent) ==
  IF spent * 100 >= 100 * BE_maxBudgetUSDC THEN "BUDGET_BLOCKED"
  ELSE IF spent * 100 >= BE_criticalThresholdPercent * BE_maxBudgetUSDC THEN "CRITICAL"
  ELSE IF spent * 100 >= BE_warningThresholdPercent * BE_maxBudgetUSDC THEN "WARNING"
  ELSE "HEALTHY"

BE_canSpend(spent, amount) ==
  LET wouldSpend == spent + amount
      canAffordIt == wouldSpend <= BE_maxBudgetUSDC
      notBlocked == BE_getStateUnsafe(spent) # "BUDGET_BLOCKED"
  IN canAffordIt /\ notBlocked

\* recordSpend's critical section: <<new spent, returned value>>
BE_recordSpend(spent, amount) ==
  IF BE_getStateUnsafe(spent) = "BUDGET_BLOCKED" THEN <<spent, FALSE>>
  ELSE IF spent + amount > BE_maxBudgetUSDC THEN <<spent, FALSE>>
  ELSE <<spent + amount, TRUE>>

\* setSpent's critical section: <<new spent, completed without throwing>>
BE_setSpent(spent, amount) ==
  IF amount < 0 THEN <<spent, FALSE>> ELSE <<amount, TRUE>>

BE_getStatus(spent) ==
  [spent |-> spent,
   remaining |-> Max(0, BE_maxBudgetUSDC - spent),
   state |-> BE_getStateUnsafe(spent),
   isBlocked |-> BE_getStateUnsafe(spent) = "BUDGET_BLOCKED"]

BE_Idle == [pc |-> "idle", op |-> "none", amount |-> 0]

BudgetInit ==
  /\ beSpent = 0
  /\ beLocked = FALSE
  /\ beLockPromise = FALSE
  /\ beCallers = [c \in BudgetCallers |-> BE_Idle]
  /\ beLast = [op |-> "none", ok |-> TRUE]

BE_acquireLock_untested(c, op, amount) ==
  /\ beLocked' = TRUE
  /\ beLockPromise' = TRUE
  /\ beCallers' = [beCallers EXCEPT ![c] =
        [pc |-> "acquired", op |-> op, amount |-> amount]]
  /\ UNCHANGED <<beSpent, beLast>>

\* acquireLock from the loop test on: wait on lockPromise, or take the lock
\* and create the next lockPromise
BE_acquireLock(c, op, amount) ==
  IF beLocked
  THEN /\ beCallers' = [beCallers EXCEPT ![c] =
             [pc |-> "waiting", op |-> op, amount |-> amount]]
       /\ UNCHANGED <<beSpent, beLocked, beLockPromise, beLast>>
  ELSE /\ beLocked' = TRUE
       /\ beLockPromise' = TRUE
       /\ beCallers' = [beCallers EXCEPT ![c] =
             [pc |-> "acquired", op |-> op, amount |-> amount]]
       /\ UNCHANGED <<beSpent, beLast>>

\* a caller invokes one of the five public operations
BE_Call ==
  \E c \in BudgetCallers, op \in BE_Ops, a \in BE_Amounts :
    /\ beCallers[c].pc = "idle"
    /\ op \in {"getStatus", "reset"} => a = 1
    /\ op = "recordSpend" => beSpent + a >= -BE_SpentFloor
    /\ BE_acquireLock(c, op, IF op \in {"getStatus", "reset"} THEN 0 ELSE a)
    /\ UNCHANGED notBudget

\* setTimeout(resolve, 0) of the lock promise a caller awaits has fired
BE_TimerFire ==
  \E c \in BudgetCallers :
    /\ beCallers[c].pc = "waiting"
    /\ beCallers' = [beCallers EXCEPT ![c].pc = "ready"]
    /\ UNCHANGED <<beSpent, beLocked, beLockPromise, beLast>>
    /\ UNCHANGED notBudget

\* a caller suspended in `await this.lockPromise` resumes and re-tests the loop
BE_Wake ==
  \E c \in BudgetCallers :
    /\ beCallers[c].pc = "ready"
    /\ BE_acquireLock(c, beCallers[c].op, beCallers[c].amount)
    /\ UNCHANGED notBudget

\* the try/finally body of the operation, ending with releaseLock
BE_CriticalSection ==
  \E c \in BudgetCallers :
    LET op == beCallers[c].op
        a == beCallers[c].amount
        rs == BE_recordSpend(beSpent, a)
        ss == BE_setSpent(beSpent, a)
    IN
    /\ beCallers[c].pc = "acquired"
    /\ beSpent' = CASE op = "recordSpend" -> rs[1]
                    [] op = "setSpent" -> ss[1]
                    [] op = "reset" -> 0
                    [] OTHER -> beSpent
    /\ beLast' = [op |-> op,
                  ok |-> CASE op = "canSpend" -> BE_canSpend(beSpent, a)
                           [] op = "recordSpend" -> rs[2]
                           [] op = "setSpent" -> ss[2]
                           [] OTHER -> TRUE]
    /\ beLocked' = FALSE
    /\ beLockPromise' = FALSE
    /\ beCallers' = [beCallers EXCEPT ![c] = BE_Idle]
    /\ UNCHANGED notBudget

BudgetNext ==
  \/ BE_Call
  \/ BE_TimerFire
  \/ BE_Wake
  \/ BE_CriticalSection

(***************************************************************************)
(* SettlementVerifier (time unit: config.timeoutMs = 2 minutes)            *)
(***************************************************************************)
confirmationBlocks == 3
SETTLEMENT_TIMEOUT == 1
MaxSettlements == 2        \* settlements created in one behaviour
NumVerifierCalls == 2      \* verifier calls in progress at the same time
MaxVerifierTime == 2       \* clock ticks in one behaviour
MaxCreateTime == 0         \* latest time at which a settlement is created
FirstBlock == 3            \* block number when the verifier starts
MaxBlocks == 1             \* blocks mined in one behaviour

SettlementIds == 1..MaxSettlements
VerifierCalls == 1..NumVerifierCalls
TxHashes == {"0xA", "0xB"}

\* the receipts the chain holds: one USDC transfer to the receiver each
ChainTx ==
  [h \in TxHashes |->
     IF h = "0xA"
     THEN [amount |-> 5, from |-> "alice", toReceiver |-> TRUE, blockNumber |-> 0]
     ELSE [amount |-> 3, from |-> "bob", toReceiver |-> TRUE, blockNumber |-> 1]]

\* the arguments createPendingSettlement is called with
SettlementArgs ==
  {[expectedAmount |-> 5, expectedSender |-> "alice"],
   [expectedAmount |-> 3, expectedSender |-> ""]}

NoVerification == [verified |-> FALSE, transactionHash |-> "", amount |-> 0,
                   sender |-> "", confirmations |-> 0]

\* verifyTransaction once the receipt and the block number have arrived;
\* rpcOk = FALSE is a fetch that throws (caught at line 106)
verifyTransaction(transactionHash, rpcOk, currentBlock) ==
  LET receipt == ChainTx[transactionHash]
      confirmations == currentBlock - receipt.blockNumber
  IN
  IF ~rpcOk THEN [NoVerification EXCEPT !.transactionHash = transactionHash]
  ELSE IF receipt.blockNumber > currentBlock
  THEN [NoVerification EXCEPT !.transactionHash = transactionHash]
  ELSE IF ~receipt.toReceiver
  THEN [NoVerification EXCEPT !.transactionHash = transactionHash]
  ELSE [verified |-> confirmations >= confirmationBlocks,
        transactionHash |-> transactionHash,
        amount |-> receipt.amount,
        sender |-> receipt.from,
        confirmations |-> confirmations]

SV_IdleCall == [pc |-> "idle", op |-> "none", sid |-> 0, tx |-> ""]

\* a new call takes the first free slot (the slots are interchangeable)
SV_FreeSlot(c) ==
  /\ svCalls[c].pc = "idle"
  /\ \A d \in VerifierCalls : d < c => svCalls[d].pc # "idle"

VerifierInit ==
  /\ svSettlements = <<>>
  /\ svVerifiedTx = {}
  /\ svCalls = [c \in VerifierCalls |-> SV_IdleCall]
  /\ svNow = 0
  /\ svBlock = FirstBlock
  /\ svLast = [success |-> FALSE, status |-> "none", settlementId |-> 0,
               error |-> "none"]

\* a SettlementResult: success, status, settlementId and the error text
SV_Result(success, status, settlementId, error) ==
  [success |-> success, status |-> status, settlementId |-> settlementId,
   error |-> error]

SV_alreadyUsed_never(transactionHash, verifiedTransactions) == FALSE

\* this.verifiedTransactions.has(transactionHash), line 147
SV_alreadyUsed(transactionHash, verifiedTransactions) ==
  transactionHash \in verifiedTransactions

createPendingSettlement ==
  \E a \in SettlementArgs :
    LET id == Len(svSettlements) + 1 IN
    /\ id <= MaxSettlements
    /\ svNow <= MaxCreateTime
    /\ svSettlements' = Append(svSettlements,
         [expectedAmount |-> a.expectedAmount, expectedSender |-> a.expectedSender,
          expiresAt |-> svNow + SETTLEMENT_TIMEOUT, status |-> "PENDING",
          verification |-> NoVerification, inMap |-> TRUE])
    /\ UNCHANGED <<svVerifiedTx, svCalls, svNow, svBlock, svLast>>
    /\ UNCHANGED notVerifier

SV_Known(sid) == sid \in DOMAIN svSettlements /\ svSettlements[sid].inMap

\* verifyPendingSettlement up to `await this.verifyTransaction(...)`, run by
\* call c (op tells whether pollForSettlement delegated to it)
SV_verifyStart(c, op, sid, tx) ==
  IF ~SV_Known(sid)
  THEN /\ svLast' = SV_Result(FALSE, "FAILED", sid, "Settlement not found")
       /\ svCalls' = [svCalls EXCEPT ![c] = SV_IdleCall]
       /\ UNCHANGED <<svSettlements, svVerifiedTx>>
  ELSE IF svNow > svSettlements[sid].expiresAt
  THEN /\ svSettlements' = [svSettlements EXCEPT ![sid].status = "EXPIRED"]
       /\ svLast' = SV_Result(FALSE, "EXPIRED", sid, "Settlement expired")
       /\ svCalls' = [svCalls EXCEPT ![c] = SV_IdleCall]
       /\ UNCHANGED svVerifiedTx
  ELSE IF SV_alreadyUsed(tx, svVerifiedTx)
  THEN /\ svLast' = SV_Result(FALSE, "FAILED", sid, "Transaction already used")
       /\ svCalls' = [svCalls EXCEPT ![c] = SV_IdleCall]
       /\ UNCHANGED <<svSettlements, svVerifiedTx>>
  ELSE /\ svSettlements' = [svSettlements EXCEPT ![sid].status = "DETECTING"]
       /\ svCalls' = [svCalls EXCEPT ![c] =
            [pc |-> "verifying", op |-> op, sid |-> sid, tx |-> tx]]
       /\ UNCHANGED <<svVerifiedTx, svLast>>

verifyPendingSettlement ==
  \E c \in VerifierCalls, sid \in SettlementIds, tx \in TxHashes :
    /\ SV_FreeSlot(c)
    /\ SV_verifyStart(c, "verify", sid, tx)
    /\ UNCHANGED <<svNow, svBlock>>
    /\ UNCHANGED notVerifier

\* verifyPendingSettlement after the await (lines 160-210)
verifyPendingSettlementResume ==
  \E c \in VerifierCalls, rpcOk \in BOOLEAN :
    LET sid == svCalls[c].sid
        pending == svSettlements[sid]
        verification == verifyTransaction(svCalls[c].tx, rpcOk, svBlock)
    IN
    /\ svCalls[c].pc = "verifying"
    /\ svCalls' = [svCalls EXCEPT ![c] = SV_IdleCall]
    /\ IF ~verification.verified
       THEN LET st == IF verification.confirmations > 0 THEN "CONFIRMING"
                      ELSE pending.status IN
            /\ svSettlements' = [svSettlements EXCEPT ![sid].status = st]
            /\ svLast' = SV_Result(FALSE, st, sid, "Awaiting confirmations")
            /\ UNCHANGED svVerifiedTx
       ELSE IF verification.amount < pending.expectedAmount
       THEN /\ svSettlements' = [svSettlements EXCEPT ![sid].status = "FAILED"]
            /\ svLast' = SV_Result(FALSE, "FAILED", sid, "Insufficient amount")
            /\ UNCHANGED svVerifiedTx
       ELSE IF pending.expectedSender # "" /\ verification.sender # pending.expectedSender
       THEN /\ svSettlements' = [svSettlements EXCEPT ![sid].status = "FAILED"]
            /\ svLast' = SV_Result(FALSE, "FAILED", sid, "Sender mismatch")
            /\ UNCHANGED svVerifiedTx
       ELSE /\ svSettlements' = [svSettlements EXCEPT ![sid].status = "VERIFIED",
                                                      ![sid].verification = verification]
            /\ svVerifiedTx' = svVerifiedTx \cup {svCalls[c].tx}
            /\ svLast' = SV_Result(TRUE, "VERIFIED", sid, "none")
    /\ UNCHANGED <<svNow, svBlock>>
    /\ UNCHANGED notVerifier

\* one evaluation of the loop test of pollForSettlement by call c
SV_pollLoop(c, sid) ==
  IF svNow < svSettlements[sid].expiresAt
  THEN /\ svCalls' = [svCalls EXCEPT ![c] =
            [pc |-> "querying", op |-> "poll", sid |-> sid, tx |-> ""]]
       /\ UNCHANGED <<svSettlements, svVerifiedTx, svLast>>
  ELSE /\ svSettlements' = [svSettlements EXCEPT ![sid].status = "EXPIRED"]
       /\ svLast' = SV_Result(FALSE, "EXPIRED", sid, "Settlement timeout")
       /\ svCalls' = [svCalls EXCEPT ![c] = SV_IdleCall]
       /\ UNCHANGED svVerifiedTx

pollForSettlement ==
  \E c \in VerifierCalls, sid \in SettlementIds :
    /\ SV_FreeSlot(c)
    /\ IF ~SV_Known(sid)
       THEN /\ svLast' = SV_Result(FALSE, "FAILED", sid, "Settlement not found")
            /\ UNCHANGED <<svSettlements, svVerifiedTx, svCalls>>
       ELSE SV_pollLoop(c, sid)
    /\ UNCHANGED <<svNow, svBlock>>
    /\ UNCHANGED notVerifier

\* the transfers queryRecentTransfers returns that match the settlement
SV_matching(pending) ==
  {h \in TxHashes :
     /\ ChainTx[h].blockNumber <= svBlock
     /\ ChainTx[h].toReceiver
     /\ ChainTx[h].amount >= pending.expectedAmount
     /\ (pending.expectedSender = "" \/ ChainTx[h].from = pending.expectedSender)
     /\ h \notin svVerifiedTx}

\* pollForSettlement when `await this.queryRecentTransfers()` returns:
\* delegate to verifyPendingSettlement, or go to sleep; a failed fetch throws
pollQueryResume ==
  \E c \in VerifierCalls, rpcOk \in BOOLEAN :
    LET sid == svCalls[c].sid
        pending == svSettlements[sid]
        matches == SV_matching(pending)
        \* Array.find returns the first match in log order (block order)
        first == CHOOSE h \in matches :
                   \A g \in matches : ChainTx[h].blockNumber <= ChainTx[g].blockNumber
    IN
    /\ svCalls[c].pc = "querying"
    /\ IF ~rpcOk
       THEN /\ svLast' = SV_Result(FALSE, "THROWN", sid, "thrown")
            /\ svCalls' = [svCalls EXCEPT ![c] = SV_IdleCall]
            /\ UNCHANGED <<svSettlements, svVerifiedTx>>
       ELSE IF matches # {}
       THEN SV_verifyStart(c, "poll", sid, first)
       ELSE /\ svCalls' = [svCalls EXCEPT ![c].pc = "sleeping"]
            /\ UNCHANGED <<svSettlements, svVerifiedTx, svLast>>
    /\ UNCHANGED <<svNow, svBlock>>
    /\ UNCHANGED notVerifier

\* pollForSettlement when `await this.sleep(pollIntervalMs)` returns
pollSleepResume ==
  \E c \in VerifierCalls :
    /\ svCalls[c].pc = "sleeping"
    /\ SV_pollLoop(c, svCalls[c].sid)
    /\ UNCHANGED <<svNow, svBlock>>
    /\ UNCHANGED notVerifier

cleanupExpiredSettlements ==
  /\ \E sid \in DOMAIN svSettlements :
        /\ svSettlements[sid].inMap
        /\ svNow > svSettlements[sid].expiresAt
        /\ svSettlements[sid].status # "VERIFIED"
  /\ svSettlements' =
       [sid \in DOMAIN svSettlements |->
          IF svNow > svSettlements[sid].expiresAt /\ svSettlements[sid].status # "VERIFIED"
          THEN [svSettlements[sid] EXCEPT !.inMap = FALSE]
          ELSE svSettlements[sid]]
  /\ UNCHANGED <<svVerifiedTx, svCalls, svNow, svBlock, svLast>>
  /\ UNCHANGED notVerifier

VerifierTick ==
  /\ svNow < MaxVerifierTime
  /\ svNow' = svNow + 1
  /\ UNCHANGED <<svSettlements, svVerifiedTx, svCalls, svBlock, svLast>>
  /\ UNCHANGED notVerifier

MineBlock ==
  /\ svBlock < FirstBlock + MaxBlocks
  /\ svBlock' = svBlock + 1
  /\ UNCHANGED <<svSettlements, svVerifiedTx, svCalls, svNow, svLast>>
  /\ UNCHANGED notVerifier

VerifierNext ==
  \/ createPendingSettlement
  \/ verifyPendingSettlement
  \/ verifyPendingSettlementResume
  \/ pollForSettlement
  \/ pollQueryResume
  \/ pollSleepResume
  \/ cleanupExpiredSettlements
  \/ VerifierTick
  \/ MineBlock

(***************************************************************************)
(* Escalation state machines (unit: 1 cent = 0.01 USDC).  The repository   *)
(* holds three implementations; escMachine says which one a behaviour      *)
(* instantiates: "A" = EscalationStateMachine.ts, "C" = the class of       *)
(* transitions.ts driven by TRANSITION_CONFIGS, "E" = the event table      *)
(* STATE_TRANSITIONS with canTransition, "G" = the guards of part_012.     *)
(***************************************************************************)
EscClockStart == 1         \* Date.now() at construction (never 0)
MaxEscTime == 2            \* latest clock value in one behaviour

RECURSIVE SumCost(_)
SumCost(history) ==
  IF history = <<>> THEN 0
  ELSE history[1].cost + SumCost(Tail(history))

(***************************************************************************)
(* A: src/state-machine/EscalationStateMachine.ts                          *)
(***************************************************************************)
A_budgetLimit == 60        \* config.budgetLimit
A_InitialUsed == 5         \* a non-zero config.currentBudgetUsed
A_MaxHistory == 4          \* successful transitions in one behaviour

LEVEL_ORDER == <<"L0", "L1", "L2", "L3", "L4", "L5">>

A_Levels == {LEVEL_ORDER[i] : i \in DOMAIN LEVEL_ORDER}

\* LEVEL_ORDER.indexOf(level), 0-based
indexOf(level) == (CHOOSE i \in DOMAIN LEVEL_ORDER : LEVEL_ORDER[i] = level) - 1

\* 0, 0.1, 0.25, 0.5, 1.0, 2.5 USDC
ESCALATION_COSTS ==
  [level \in A_Levels |->
     CASE level = "L0" -> 0
       [] level = "L1" -> 10
       [] level = "L2" -> 25
       [] level = "L3" -> 50
       [] level = "L4" -> 100
       [] level = "L5" -> 250]

A_Configs ==
  [initialLevel : {"L0", "L3"},
   budgetLimit : {A_budgetLimit},
   currentBudgetUsed : {0, A_InitialUsed}]

A_NoResult == [op |-> "none", previousLevel |-> "L0", targetLevel |-> "L0",
               success |-> FALSE, newLevel |-> "L0", cost |-> 0]

A_Init(config) ==
  /\ aConfig = config
  /\ aCurrentState = [level |-> config.initialLevel, enteredAt |-> EscClockStart]
  /\ aTransitionHistory = <<>>
  /\ aBudgetUsed = config.currentBudgetUsed
  /\ aLast = [A_NoResult EXCEPT !.previousLevel = config.initialLevel,
                                !.targetLevel = config.initialLevel,
                                !.newLevel = config.initialLevel]

budgetGuard_absent(from, to) == TRUE

budgetGuard(from, to) == aBudgetUsed + ESCALATION_COSTS[to] <= aConfig.budgetLimit

sequentialGuard_skipOne(from, to) == indexOf(to) <= indexOf(from) + 2

sequentialGuard(from, to) == indexOf(to) <= indexOf(from) + 1

\* canTransitionTo(targetLevel).success: no guard of the target level fails
canTransitionTo(targetLevel) ==
  /\ budgetGuard(aCurrentState.level, targetLevel)
  /\ sequentialGuard(aCurrentState.level, targetLevel)

A_updateBudget_forgotten(budgetUsed, cost) == budgetUsed

\* this.budgetUsed += cost
A_updateBudget(budgetUsed, cost) == budgetUsed + cost

A_rejectedState_reentered(currentState, now) == [currentState EXCEPT !.enteredAt = now]

\* currentState when transitionTo returns the failed result (line 137)
A_rejectedState(currentState, now) == currentState

\* transitionTo(targetLevel, reason, metadata), called as operation op
A_transitionTo(op, targetLevel) ==
  LET previousLevel == aCurrentState.level
      cost == ESCALATION_COSTS[targetLevel]
  IN
  IF ~canTransitionTo(targetLevel)
  THEN /\ aCurrentState' = A_rejectedState(aCurrentState, escNow)
       /\ UNCHANGED <<aTransitionHistory, aBudgetUsed>>
       /\ aLast' = [op |-> op, previousLevel |-> previousLevel,
                    targetLevel |-> targetLevel, success |-> FALSE,
                    newLevel |-> previousLevel, cost |-> 0]
  ELSE /\ aTransitionHistory' = Append(aTransitionHistory,
            [from |-> previousLevel, to |-> targetLevel, cost |-> cost])
       /\ aBudgetUsed' = A_updateBudget(aBudgetUsed, cost)
       /\ aCurrentState' = [level |-> targetLevel, enteredAt |-> escNow]
       /\ aLast' = [op |-> op, previousLevel |-> previousLevel,
                    targetLevel |-> targetLevel, success |-> TRUE,
                    newLevel |-> targetLevel, cost |-> cost]

\* what a call on machine A leaves alone
A_Frame ==
  /\ UNCHANGED <<escMachine, escNow, aConfig, machineCVars, tableVars>>
  /\ UNCHANGED notEsc

transitionTo ==
  \E targetLevel \in A_Levels :
    /\ escMachine = "A"
    /\ Len(aTransitionHistory) < A_MaxHistory
    /\ A_transitionTo("transitionTo", targetLevel)
    /\ A_Frame

escalate ==
  LET currentIndex == indexOf(aCurrentState.level) IN
  /\ escMachine = "A"
  /\ Len(aTransitionHistory) < A_MaxHistory
  /\ IF currentIndex >= Len(LEVEL_ORDER) - 1
     THEN /\ aLast' = [op |-> "escalate", previousLevel |-> aCurrentState.level,
                       targetLevel |-> aCurrentState.level, success |-> FALSE,
                       newLevel |-> aCurrentState.level, cost |-> 0]
          /\ UNCHANGED <<aCurrentState, aTransitionHistory, aBudgetUsed>>
     ELSE A_transitionTo("escalate", LEVEL_ORDER[(currentIndex + 1) + 1])
  /\ A_Frame

deescalate ==
  LET currentIndex == indexOf(aCurrentState.level) IN
  /\ escMachine = "A"
  /\ Len(aTransitionHistory) < A_MaxHistory
  /\ IF currentIndex <= 0
     THEN /\ aLast' = [op |-> "deescalate", previousLevel |-> aCurrentState.level,
                       targetLevel |-> aCurrentState.level, success |-> FALSE,
                       newLevel |-> aCurrentState.level, cost |-> 0]
          /\ UNCHANGED <<aCurrentState, aTransitionHistory, aBudgetUsed>>
     ELSE A_transitionTo("deescalate", LEVEL_ORDER[(currentIndex - 1) + 1])
  /\ A_Frame

\* guards.ts: the cooldown of cooldownExpiredGuard, 60000 ms; the clock of
\* the state machines counts minutes
cooldownMs == 1

\* cooldownExpiredGuard.evaluate for a context whose lastEscalationTime is
\* `lastEscalationTime` (0 = not set), evaluated at time now
cooldownExpiredGuard(lastEscalationTime, now) ==
  IF lastEscalationTime = 0 THEN TRUE
  ELSE IF lastEscalationTime > now THEN FALSE
  ELSE now - lastEscalationTime >= cooldownMs

\* getTotalCost(): transitionHistory.reduce((sum, t) => sum + t.cost, 0)
getTotalCost == SumCost(aTransitionHistory)

(***************************************************************************)
(* C: class EscalationStateMachine of src/state-machine/transitions.ts     *)
(* (lines 365-637) with TRANSITION_CONFIGS of config.ts.  The guard        *)
(* functions it imports from './guards' (shouldBlockForBudget and the      *)
(* methods of getGuardConditions()) are in no file of the repository; they *)
(* are modelled from the transition table of the specification.            *)
(***************************************************************************)
C_budgetLimit == 150       \* config.budgetLimit
C_RaisedLimit == 350       \* a replenished budgetLimit given to updateContext
C_MaxHistory == 4          \* successful transitions since the last reset
MIN_OPERATIONAL == 5       \* minimum_operational_usdc, 0.05 USDC

C_Ordered == <<"L0_IDLE", "L1_MONITOR", "L2_ALERT", "L3_MARKET_DATA",
               "L4_CRITICAL", "L5_EMERGENCY">>

C_Levels == {C_Ordered[i] : i \in DOMAIN C_Ordered} \cup {"BUDGET_BLOCKED"}

\* position of an ordered level (L0_IDLE = 0); BUDGET_BLOCKED has none
C_index(level) == (CHOOSE i \in DOMAIN C_Ordered : C_Ordered[i] = level) - 1

\* one TransitionConfig; an absent cost is read as `cost ?? 0`
TC(from, to, guard, cost, requiresPayment) ==
  [from |-> from, to |-> to, guard |-> guard, cost |-> cost,
   requiresPayment |-> requiresPayment]

TRANSITION_CONFIGS ==
  << TC("L0_IDLE", "L1_MONITOR", "canStartMonitoring", 0, FALSE),
     TC("L1_MONITOR", "L2_ALERT", "shouldEscalateToAlert", 0, FALSE),
     TC("L2_ALERT", "L3_MARKET_DATA", "shouldEscalateToMarketData", 50, TRUE),
     TC("L3_MARKET_DATA", "L4_CRITICAL", "shouldEscalateToCritical", 100, TRUE),
     TC("L4_CRITICAL", "L5_EMERGENCY", "shouldEscalateToEmergency", 200, TRUE),
     TC("L5_EMERGENCY", "L4_CRITICAL", "canDeescalateFromEmergency", 0, FALSE),
     TC("L4_CRITICAL", "L3_MARKET_DATA", "canDeescalateFromCritical", 0, FALSE),
     TC("L3_MARKET_DATA", "L2_ALERT", "canDeescalateFromMarketData", 0, FALSE),
     TC("L2_ALERT", "L1_MONITOR", "canDeescalateFromAlert", 0, FALSE),
     TC("L1_MONITOR", "L0_IDLE", "canStopMonitoring", 0, FALSE),
     TC("L2_ALERT", "BUDGET_BLOCKED", "isBudgetExhausted", 0, FALSE),
     TC("L3_MARKET_DATA", "BUDGET_BLOCKED", "isBudgetExhausted", 0, FALSE),
     TC("L4_CRITICAL", "BUDGET_BLOCKED", "isBudgetExhausted", 0, FALSE),
     TC("BUDGET_BLOCKED", "L1_MONITOR", "hasBudgetRestored", 0, FALSE) >>

\* the `undefined` Array.find returns
NoTransitionConfig == TC("", "", "", 0, FALSE)

findTransition(from, to) ==
  LET found == {i \in DOMAIN TRANSITION_CONFIGS :
                  /\ TRANSITION_CONFIGS[i].from = from
                  /\ TRANSITION_CONFIGS[i].to = to}
  IN IF found = {} THEN NoTransitionConfig
     ELSE TRANSITION_CONFIGS[CHOOSE i \in found : \A j \in found : i <= j]

getTransitionCost(from, to) == findTransition(from, to).cost

\* context.riskScore abstracted to what the guards read from it
RiskScores == {"low", "high"}

\* guards './guards' does not define: escalation guards pass on a high
\* risk score, de-escalation guards on a low one
C_EscalationGuards == {"shouldEscalateToAlert", "shouldEscalateToMarketData",
                       "shouldEscalateToCritical", "shouldEscalateToEmergency"}

C_DeescalationGuards == {"canDeescalateFromEmergency", "canDeescalateFromCritical",
                         "canDeescalateFromMarketData", "canDeescalateFromAlert",
                         "canStopMonitoring"}

\* remaining < minimum_operational
shouldBlockForBudget(context) ==
  context.budgetLimit - context.currentSpend < MIN_OPERATIONAL

\* evaluateGuard(guardName, context); line 485 is
\* context.currentSpend < context.budgetLimit * 0.9
evaluateGuard(guardName, context) ==
  CASE guardName = "canStartMonitoring" -> TRUE
    [] guardName \in C_EscalationGuards -> context.riskScore = "high"
    [] guardName \in C_DeescalationGuards -> context.riskScore = "low"
    [] guardName = "isBudgetExhausted" -> shouldBlockForBudget(context)
    [] guardName = "hasBudgetRestored" ->
         10 * context.currentSpend < 9 * context.budgetLimit
    [] OTHER -> FALSE

C_Configs == [initialLevel : {"L0_IDLE", "L2_ALERT"}, budgetLimit : {C_budgetLimit}]

\* the state the constructor and reset() build
C_FreshState(config, now) ==
  [level |-> config.initialLevel,
   enteredAt |-> now,
   context |-> [currentSpend |-> 0, budgetLimit |-> config.budgetLimit,
                riskScore |-> "low"]]

C_NoResult == [op |-> "none", from |-> "L0_IDLE", to |-> "L0_IDLE",
               entered |-> "L0_IDLE", outcome |-> "none"]

C_Init(config) ==
  /\ cConfig = config
  /\ cCurrentState = C_FreshState(config, EscClockStart)
  /\ cHistory = <<>>
  /\ cLast = C_NoResult

\* getAvailableTransitions(): the targets whose guard passes now
getAvailableTransitions ==
  {TRANSITION_CONFIGS[i].to : i \in
     {j \in DOMAIN TRANSITION_CONFIGS :
        /\ TRANSITION_CONFIGS[j].from = cCurrentState.level
        /\ evaluateGuard(TRANSITION_CONFIGS[j].guard, cCurrentState.context)}}

\* transition() throws (lines 500, 506): nothing is assigned
C_throw(op, targetLevel, outcome) ==
  /\ UNCHANGED <<cCurrentState, cHistory>>
  /\ cLast' = [op |-> op, from |-> cCurrentState.level, to |-> targetLevel,
               entered |-> cCurrentState.level, outcome |-> outcome]

\* lines 526-557: update the spend, enter `entered`, push the record
C_commit(op, targetLevel, entered, transitionConfig, newSpend) ==
  /\ cCurrentState' =
       [level |-> entered,
        enteredAt |-> escNow,
        context |-> [cCurrentState.context EXCEPT !.currentSpend = newSpend]]
  /\ cHistory' = Append(cHistory, [from |-> cCurrentState.level, to |-> entered,
                                   cost |-> transitionConfig.cost])
  /\ cLast' = [op |-> op, from |-> cCurrentState.level, to |-> targetLevel,
               entered |-> entered, outcome |-> "ok"]

\* transition(targetLevel, event), called as operation op; the redirect of
\* line 518 is the nested call this.transition(BUDGET_BLOCKED, ...)
C_transition(op, targetLevel) ==
  LET fromLevel == cCurrentState.level
      context == cCurrentState.context
      transitionConfig == findTransition(fromLevel, targetLevel)
      blockConfig == findTransition(fromLevel, "BUDGET_BLOCKED")
      newSpend == context.currentSpend + transitionConfig.cost
  IN
  IF transitionConfig = NoTransitionConfig
  THEN C_throw(op, targetLevel, "invalid")
  ELSE IF ~evaluateGuard(transitionConfig.guard, context)
  THEN C_throw(op, targetLevel, "guard")
  ELSE IF transitionConfig.requiresPayment /\ newSpend > context.budgetLimit
  THEN IF blockConfig = NoTransitionConfig
       THEN C_throw(op, targetLevel, "invalid")
       ELSE IF ~evaluateGuard(blockConfig.guard, context)
       THEN C_throw(op, targetLevel, "guard")
       ELSE C_commit(op, targetLevel, "BUDGET_BLOCKED", blockConfig,
                     context.currentSpend)
  ELSE C_commit(op, targetLevel, targetLevel, transitionConfig,
                IF transitionConfig.requiresPayment THEN newSpend
                ELSE context.currentSpend)

\* what a call on machine C leaves alone
C_Frame ==
  /\ UNCHANGED <<escMachine, escNow, cConfig, machineAVars, tableVars>>
  /\ UNCHANGED notEsc

transition ==
  \E targetLevel \in C_Levels :
    /\ escMachine = "C"
    /\ Len(cHistory) < C_MaxHistory
    /\ C_transition("transition", targetLevel)
    /\ C_Frame

priorityOrder_reversed == <<"L0_IDLE", "L1_MONITOR", "L2_ALERT", "L3_MARKET_DATA",
                            "L4_CRITICAL", "L5_EMERGENCY", "BUDGET_BLOCKED">>

priorityOrder == <<"BUDGET_BLOCKED", "L5_EMERGENCY", "L4_CRITICAL", "L3_MARKET_DATA",
                   "L2_ALERT", "L1_MONITOR", "L0_IDLE">>

processEvent ==
  LET availableTransitions == getAvailableTransitions
      first == CHOOSE i \in DOMAIN priorityOrder :
                 /\ priorityOrder[i] \in availableTransitions
                 /\ \A j \in DOMAIN priorityOrder :
                      priorityOrder[j] \in availableTransitions => i <= j
  IN
  /\ escMachine = "C"
  /\ Len(cHistory) < C_MaxHistory
  /\ IF availableTransitions = {}
     THEN /\ UNCHANGED <<cCurrentState, cHistory>>
          /\ cLast' = [op |-> "processEvent", from |-> cCurrentState.level,
                       to |-> cCurrentState.level,
                       entered |-> cCurrentState.level, outcome |-> "null"]
     ELSE C_transition("processEvent", priorityOrder[first])
  /\ C_Frame

\* the Partial<EscalationContext> values updateContext is called with: new
\* metrics and a (possibly replenished) limit, never the spend
C_Updates == [riskScore : RiskScores, budgetLimit : {C_budgetLimit, C_RaisedLimit}]

updateContext ==
  \E updates \in C_Updates :
    /\ escMachine = "C"
    /\ cCurrentState' =
         [cCurrentState EXCEPT !.context.riskScore = updates.riskScore,
                               !.context.budgetLimit = updates.budgetLimit]
    /\ cLast' = [op |-> "updateContext", from |-> cCurrentState.level,
                 to |-> cCurrentState.level, entered |-> cCurrentState.level,
                 outcome |-> "done"]
    /\ UNCHANGED cHistory
    /\ C_Frame

reset ==
  /\ escMachine = "C"
  /\ cCurrentState' = C_FreshState(cConfig, escNow)
  /\ cHistory' = <<>>
  /\ cLast' = [op |-> "reset", from |-> cCurrentState.level,
               to |-> cConfig.initialLevel, entered |-> cConfig.initialLevel,
               outcome |-> "done"]
  /\ C_Frame

(***************************************************************************)
(* E: the event table of src/state-machine/transitions.ts (lines 4-105)    *)
(* and the guard functions of part_012.  They are pure functions of their  *)
(* arguments; each action calls one with arguments drawn from small sets    *)
(* (escMachine "E" = canTransition, "G" = the guards called directly).     *)
(***************************************************************************)
E_budgetLimit == 20        \* context.budgetLimit of the calls
E_LowRemaining == 3        \* a remaining budget between 0.01 and 0.05 USDC
E_cooldownMs == 1          \* context.cooldownMs of the calls
MIN_VIABLE_PAYMENT == 1    \* remaining >= 0.01

E_States == {"IDLE", "MONITORING", "ESCALATING", "AWAITING_PAYMENT",
             "PAYMENT_PENDING", "BUDGET_BLOCKED", "COOLDOWN"}

E_Events == {"RISK_UPDATE", "ESCALATE", "BUDGET_EXHAUSTED", "DE_ESCALATE",
             "PAYMENT_REQUIRED", "PAYMENT_CONFIRMED", "PAYMENT_FAILED",
             "COOLDOWN_COMPLETE"}

\* one EscalationTransition of the table; guarded = it lists guards
ST(from, to, event, guarded) ==
  [from |-> from, to |-> to, event |-> event, guarded |-> guarded]

STATE_TRANSITIONS ==
  << ST("IDLE", "MONITORING", "RISK_UPDATE", TRUE),
     ST("MONITORING", "ESCALATING", "ESCALATE", TRUE),
     ST("MONITORING", "BUDGET_BLOCKED", "BUDGET_EXHAUSTED", FALSE),
     ST("MONITORING", "IDLE", "DE_ESCALATE", FALSE),
     ST("ESCALATING", "AWAITING_PAYMENT", "PAYMENT_REQUIRED", FALSE),
     ST("ESCALATING", "MONITORING", "ESCALATE", FALSE),
     ST("ESCALATING", "BUDGET_BLOCKED", "BUDGET_EXHAUSTED", FALSE),
     ST("AWAITING_PAYMENT", "PAYMENT_PENDING", "PAYMENT_REQUIRED", FALSE),
     ST("AWAITING_PAYMENT", "BUDGET_BLOCKED", "BUDGET_EXHAUSTED", FALSE),
     ST("PAYMENT_PENDING", "COOLDOWN", "PAYMENT_CONFIRMED", FALSE),
     ST("PAYMENT_PENDING", "MONITORING", "PAYMENT_FAILED", FALSE),
     ST("PAYMENT_PENDING", "BUDGET_BLOCKED", "BUDGET_EXHAUSTED", FALSE),
     ST("COOLDOWN", "MONITORING", "COOLDOWN_COMPLETE", FALSE),
     ST("COOLDOWN", "BUDGET_BLOCKED", "BUDGET_EXHAUSTED", FALSE),
     ST("BUDGET_BLOCKED", "MONITORING", "RISK_UPDATE", TRUE) >>

NoStateTransition == ST("", "", "", FALSE)

findValidTransition(currentState, event) ==
  LET found == {i \in DOMAIN STATE_TRANSITIONS :
                  /\ STATE_TRANSITIONS[i].from = currentState
                  /\ STATE_TRANSITIONS[i].event = event}
  IN IF found = {} THEN NoStateTransition
     ELSE STATE_TRANSITIONS[CHOOSE i \in found : \A j \in found : i <= j]

\* the contexts the guard functions are called with; riskScore in percent,
\* lastEscalationTime 0 = not set
E_Contexts ==
  [totalSpent : {0, E_budgetLimit - E_LowRemaining, E_budgetLimit},
   budgetLimit : {E_budgetLimit},
   pendingPayment : BOOLEAN,
   lastPaymentVerified : {FALSE},
   lastEscalationTime : {0, 1},
   cooldownMs : {E_cooldownMs},
   riskScore : {0, 100},
   currentLevel : {"L5"}]

Allowed == [allowed |-> TRUE, blockedBy |-> "none"]

Blocked(blockedBy) == [allowed |-> FALSE, blockedBy |-> blockedBy]

checkBudgetAvailable(context) ==
  LET remaining == context.budgetLimit - context.totalSpent IN
  IF remaining >= MIN_VIABLE_PAYMENT THEN Allowed ELSE Blocked("BUDGET_LIMIT")

\* 0, 0.2, 0.4, 0.6, 0.8, 0.95
riskThresholds ==
  [level \in A_Levels |->
     CASE level = "L0" -> 0
       [] level = "L1" -> 20
       [] level = "L2" -> 40
       [] level = "L3" -> 60
       [] level = "L4" -> 80
       [] level = "L5" -> 95]

checkEscalationThreshold(currentLevel, targetLevel, context) ==
  LET currentIndex == indexOf(currentLevel)
      targetIndex == indexOf(targetLevel)
      isSequential == targetIndex <= currentIndex + 1
  IN
  IF ~isSequential THEN Blocked("LEVEL_SKIP_VIOLATION")
  ELSE IF context.riskScore >= riskThresholds[targetLevel] THEN Allowed
  ELSE Blocked("RISK_THRESHOLD")

checkCooldownPeriod(context, now) ==
  IF context.lastEscalationTime = 0 THEN Allowed
  ELSE IF context.cooldownMs - (now - context.lastEscalationTime) <= 0 THEN Allowed
  ELSE Blocked("COOLDOWN_ACTIVE")

checkPaymentVerification(context) ==
  IF context.pendingPayment /\ ~context.lastPaymentVerified
  THEN Blocked("PAYMENT_PENDING")
  ELSE Allowed

\* the first guard that does not allow decides
evaluateAllGuards(currentLevel, targetLevel, context, now) ==
  IF ~checkBudgetAvailable(context).allowed THEN checkBudgetAvailable(context)
  ELSE IF ~checkPaymentVerification(context).allowed
  THEN checkPaymentVerification(context)
  ELSE IF ~checkCooldownPeriod(context, now).allowed
  THEN checkCooldownPeriod(context, now)
  ELSE IF ~checkEscalationThreshold(currentLevel, targetLevel, context).allowed
  THEN checkEscalationThreshold(currentLevel, targetLevel, context)
  ELSE Allowed

shouldBlockBudget(context) ==
  /\ ~checkBudgetAvailable(context).allowed
  /\ checkBudgetAvailable(context).blockedBy = "BUDGET_LIMIT"

\* canTransition(currentState, event, context): the TransitionResult
canTransition(currentState, event, context, now) ==
  LET t == findValidTransition(currentState, event)
      guardResult == evaluateAllGuards(context.currentLevel, context.currentLevel,
                                       context, now)
  IN
  IF t = NoStateTransition
  THEN [success |-> FALSE, newState |-> currentState,
        blockedBy |-> "INVALID_TRANSITION"]
  ELSE IF shouldBlockBudget(context) /\ t.to # "BUDGET_BLOCKED"
  THEN [success |-> FALSE, newState |-> currentState, blockedBy |-> "BUDGET_LIMIT"]
  ELSE IF t.guarded /\ ~guardResult.allowed
  THEN [success |-> FALSE, newState |-> currentState,
        blockedBy |-> guardResult.blockedBy]
  ELSE [success |-> TRUE, newState |-> t.to, blockedBy |-> "none"]

E_NoCall == [currentState |-> "IDLE", event |-> "none", remaining |-> 0,
             success |-> FALSE, newState |-> "IDLE", blockedBy |-> "none"]

G_NoCall == [currentLevel |-> "L0", targetLevel |-> "L0", threshold |-> FALSE,
             allowed |-> FALSE, blockedBy |-> "none"]

E_Init ==
  /\ eLast = E_NoCall
  /\ gLast = G_NoCall

\* what a call of a table function leaves alone
E_Frame ==
  /\ UNCHANGED <<escMachine, escNow, machineAVars, machineCVars>>
  /\ UNCHANGED notEsc

\* a caller evaluates canTransition(currentState, event, context)
canTransitionCall ==
  \E currentState \in E_States, event \in E_Events, context \in E_Contexts :
    LET result == canTransition(currentState, event, context, escNow) IN
    /\ escMachine = "E"
    /\ eLast' = [currentState |-> currentState, event |-> event,
                 remaining |-> context.budgetLimit - context.totalSpent,
                 success |-> result.success, newState |-> result.newState,
                 blockedBy |-> result.blockedBy]
    /\ UNCHANGED gLast
    /\ E_Frame

\* a caller evaluates the guards of a level change
evaluateAllGuardsCall ==
  \E currentLevel \in A_Levels, targetLevel \in A_Levels, context \in E_Contexts :
    LET result == evaluateAllGuards(currentLevel, targetLevel, context, escNow) IN
    /\ escMachine = "G"
    /\ gLast' = [currentLevel |-> currentLevel, targetLevel |-> targetLevel,
                 threshold |->
                   checkEscalationThreshold(currentLevel, targetLevel, context).allowed,
                 allowed |-> result.allowed, blockedBy |-> result.blockedBy]
    /\ UNCHANGED eLast
    /\ E_Frame

(***************************************************************************)
(* The three machines together                                             *)
(***************************************************************************)
\* the machines as their constructors leave them
EscDefaultInit ==
  /\ escMachine = "A"
  /\ escNow = EscClockStart
  /\ A_Init([initialLevel |-> "L0", budgetLimit |-> A_budgetLimit,
             currentBudgetUsed |-> 0])
  /\ C_Init([initialLevel |-> "L0_IDLE", budgetLimit |-> C_budgetLimit])
  /\ E_Init

\* one machine is under test and is constructed with any configuration;
\* the others stay as EscDefaultInit leaves them
EscInit ==
  /\ escMachine \in {"A", "C", "E", "G"}
  /\ escNow = EscClockStart
  /\ \E config \in A_Configs :
       /\ escMachine # "A" => config = [initialLevel |-> "L0",
                                        budgetLimit |-> A_budgetLimit,
                                        currentBudgetUsed |-> 0]
       /\ A_Init(config)
  /\ \E config \in C_Configs :
       /\ escMachine # "C" => config = [initialLevel |-> "L0_IDLE",
                                        budgetLimit |-> C_budgetLimit]
       /\ C_Init(config)
  /\ E_Init

EscTick ==
  /\ escNow < MaxEscTime
  /\ escNow' = escNow + 1
  /\ UNCHANGED <<escMachine, machineAVars, machineCVars, tableVars>>
  /\ UNCHANGED notEsc

EscNext ==
  \/ transitionTo
  \/ escalate
  \/ deescalate
  \/ transition
  \/ processEvent
  \/ updateContext
  \/ reset
  \/ canTransitionCall
  \/ evaluateAllGuardsCall
  \/ EscTick

(***************************************************************************)
(* AgentRunner (src/services/scheduler/AgentRunner.ts).  The table         *)
(* agent_runs is a sequence of rows in insertion order; a run's id is its  *)
(* position.  Every SQL statement is one step; a call is suspended between *)
(* its statements.                                                         *)
(***************************************************************************)
MaxRuns == 3               \* rows inserted in one behaviour
NumRunnerCalls == 2        \* createRun / replayRun calls in progress at once

RunnerCalls == 1..NumRunnerCalls
RunIds == 1..MaxRuns

AR_IdleCall == [pc |-> "idle", op |-> "none", dryRun |-> FALSE, runNumber |-> 0]

AR_FreeSlot(c) ==
  /\ arCalls[c].pc = "idle"
  /\ \A d \in RunnerCalls : d < c => arCalls[d].pc # "idle"

RunnerInit ==
  /\ arRuns = <<>>
  /\ arCalls = [c \in RunnerCalls |-> AR_IdleCall]

\* rows whose creation is finished or under way
AR_Started == Len(arRuns) + Cardinality({c \in RunnerCalls : arCalls[c].pc # "idle"})

RECURSIVE AR_MaxRun(_)
\* SELECT MAX(run_number) FROM agent_runs, with `?? 0` for the empty table
AR_MaxRun(rows) ==
  IF rows = <<>> THEN 0
  ELSE LET rest == AR_MaxRun(Tail(rows)) IN
       IF rows[1].runNumber >= rest THEN rows[1].runNumber ELSE rest

\* getNextRunNumber(): (result?.maxRun ?? 0) + 1
getNextRunNumber == AR_MaxRun(arRuns) + 1

\* createRun() up to the INSERT: the SELECT of getNextRunNumber has run
createRun ==
  \E c \in RunnerCalls :
    /\ AR_FreeSlot(c)
    /\ AR_Started < MaxRuns
    /\ arCalls' = [arCalls EXCEPT ![c] =
         [pc |-> "inserting", op |-> "createRun", dryRun |-> FALSE,
          runNumber |-> getNextRunNumber]]
    /\ UNCHANGED arRuns
    /\ UNCHANGED notRunner

\* createRun(): INSERT INTO agent_runs (..., status 'pending')
createRunInsert ==
  \E c \in RunnerCalls :
    /\ arCalls[c].pc = "inserting"
    /\ arRuns' = Append(arRuns, [runNumber |-> arCalls[c].runNumber,
                                 status |-> "pending"])
    /\ arCalls' = [arCalls EXCEPT ![c] = AR_IdleCall]
    /\ UNCHANGED notRunner

\* replayRun(options) up to createRun(): getRun(options.runId) has returned;
\* an unknown run throws.  options.dryRun is stored in the new run's
\* in-memory metadata only (replayOptions) and read nowhere
replayRun ==
  \E c \in RunnerCalls, runId \in RunIds, dryRun \in BOOLEAN :
    /\ AR_FreeSlot(c)
    /\ AR_Started < MaxRuns
    /\ IF runId \in DOMAIN arRuns
       THEN arCalls' = [arCalls EXCEPT ![c] =
              [pc |-> "replaying", op |-> "replayRun", dryRun |-> dryRun,
               runNumber |-> 0]]
       ELSE UNCHANGED arCalls
    /\ UNCHANGED arRuns
    /\ UNCHANGED notRunner

\* replayRun: the SELECT of the createRun() it calls
replayRunCreate ==
  \E c \in RunnerCalls :
    /\ arCalls[c].pc = "replaying"
    /\ arCalls' = [arCalls EXCEPT ![c].pc = "inserting",
                                  ![c].runNumber = getNextRunNumber]
    /\ UNCHANGED arRuns
    /\ UNCHANGED notRunner

\* startRun(runId): the statement has no condition on the row's status
\* UPDATE agent_runs SET started_at = ?, status = 'running' WHERE id = ?
startRun ==
  \E runId \in DOMAIN arRuns :
    /\ arRuns' = [arRuns EXCEPT ![runId].status = "running"]
    /\ UNCHANGED arCalls
    /\ UNCHANGED notRunner

\* completeRun(runId, ...): UPDATE agent_runs SET completed_at = ?,
\* status = 'completed', ... WHERE id = ?
completeRun ==
  \E runId \in DOMAIN arRuns :
    /\ arRuns' = [arRuns EXCEPT ![runId].status = "completed"]
    /\ UNCHANGED arCalls
    /\ UNCHANGED notRunner

\* failRun(runId, ...): UPDATE agent_runs SET completed_at = ?,
\* status = 'failed', ... WHERE id = ?
failRun ==
  \E runId \in DOMAIN arRuns :
    /\ arRuns' = [arRuns EXCEPT ![runId].status = "failed"]
    /\ UNCHANGED arCalls
    /\ UNCHANGED notRunner

RunnerNext ==
  \/ createRun
  \/ createRunInsert
  \/ replayRun
  \/ replayRunCreate
  \/ startRun
  \/ completeRun
  \/ failRun

(***************************************************************************)
(* Http402Handler.verifySettlement (src/services/payments/                 *)
(* Http402Handler.ts; amounts in USDC).  The call only reads the chain, so *)
(* it is applied to the receipt and the head block the RPC node returns.   *)
(***************************************************************************)
H_confirmationBlocks == 3
H_MaxLogs == 2             \* USDC Transfer logs in one receipt
H_MaxBlock == 3            \* highest block number of the chain

H_Transfers == [to : {"recipient", "other"}, value : {2, 5}]

H_Logs == UNION {[1..n -> H_Transfers] : n \in 0..H_MaxLogs}

\* eth_getTransactionReceipt: null, or a receipt with its USDC Transfer logs
H_NoReceipt == [found |-> FALSE, status |-> "0x0", blockNumber |-> 0, logs |-> <<>>]

H_Receipts ==
  {H_NoReceipt} \cup
  [found : {TRUE}, status : {"0x1", "0x0"}, blockNumber : 0..H_MaxBlock, logs : H_Logs]

H_ExpectedAmounts == {2, 5}

\* parseUSDCTransfer: the first USDC Transfer log of the receipt, or null
parseUSDCTransfer(logs) ==
  IF logs = <<>> THEN [found |-> FALSE, to |-> "", value |-> 0]
  ELSE [found |-> TRUE, to |-> logs[1].to, value |-> logs[1].value]

H_Result(verified, error) == [verified |-> verified, error |-> error]

\* verifySettlement(params) on receipt txReceipt; rpcOk = FALSE is a fetch
\* that throws (caught at line 114)
verifySettlement(txReceipt, expectedAmount, expectedRecipient, rpcOk) ==
  LET transferEvent == parseUSDCTransfer(txReceipt.logs) IN
  IF ~rpcOk THEN H_Result(FALSE, "Verification failed")
  ELSE IF ~txReceipt.found THEN H_Result(FALSE, "Transaction not found")
  ELSE IF txReceipt.status # "0x1" THEN H_Result(FALSE, "Transaction failed")
  ELSE IF ~transferEvent.found THEN H_Result(FALSE, "No USDC transfer found")
  ELSE IF transferEvent.to # expectedRecipient
  THEN H_Result(FALSE, "Payment sent to wrong recipient")
  ELSE IF transferEvent.value < expectedAmount
  THEN H_Result(FALSE, "Insufficient payment")
  ELSE H_Result(TRUE, "none")

Http402Init ==
  hLast = [txReceipt |-> H_NoReceipt, currentBlock |-> 0, expectedAmount |-> 2,
           result |-> H_Result(FALSE, "none")]

\* one call of verifySettlement against a chain whose head is currentBlock
verifySettlementCall ==
  \E txReceipt \in H_Receipts, currentBlock \in 0..H_MaxBlock,
     expectedAmount \in H_ExpectedAmounts, rpcOk \in BOOLEAN :
    /\ txReceipt.found => txReceipt.blockNumber <= currentBlock
    /\ hLast' = [txReceipt |-> txReceipt, currentBlock |-> currentBlock,
                 expectedAmount |-> expectedAmount,
                 result |-> verifySettlement(txReceipt, expectedAmount,
                                             "recipient", rpcOk)]
    /\ UNCHANGED notHttp402

Http402Next == verifySettlementCall

(***************************************************************************)
(* RetryableService.withRetry (src/unnamed/part_010; time unit: 100 ms)    *)
(***************************************************************************)
maxAttempts == 3
baseDelayMs == 10
maxDelayMs == 300
backoffMultiplier == 2
R_CustomAttempts == 5      \* a maxAttempts given to the constructor

DEFAULT_RETRY_CONFIG == [maxAttempts |-> maxAttempts, retryableErrors |-> "unset"]

\* { ...DEFAULT_RETRY_CONFIG, ...retryConfig }
R_Configs ==
  [maxAttempts : {maxAttempts, R_CustomAttempts}, retryableErrors : {"unset", "network"}]

\* what one run of the operation does: resolve, or reject with an error
R_Outcomes == {"ok", "network", "fatal"}

RECURSIVE R_Pow(_, _)
\* Math.pow(b, e) for a natural exponent
R_Pow(b, e) == IF e = 0 THEN 1 ELSE b * R_Pow(b, e - 1)

\* isRetryable(error): every error when retryableErrors is not set, else
\* the errors whose message contains a pattern
isRetryable(config, error) ==
  IF config.retryableErrors = "unset" THEN TRUE
  ELSE error = config.retryableErrors

\* baseDelayMs * Math.pow(backoffMultiplier, attempt - 1)
R_exponentialDelay(attempt) == baseDelayMs * R_Pow(backoffMultiplier, attempt - 1)

\* Math.random() * 0.3 * exponentialDelay: the least and the greatest value
R_Jitters(attempt) == {0, (3 * R_exponentialDelay(attempt)) \div 10 - 1}

\* calculateDelay(attempt) for one value of the jitter
calculateDelay(attempt, jitter) ==
  Min(R_exponentialDelay(attempt) + jitter, maxDelayMs)

R_IdleCall == [pc |-> "idle", attempts |-> 0, lastError |-> "none",
               delay |-> 0, elapsed |-> 0]

R_NoResult == [success |-> FALSE, attempts |-> 0, totalTime |-> 0,
               lastError |-> "none"]

RetryInit ==
  /\ rConfig = DEFAULT_RETRY_CONFIG
  /\ rCall = R_IdleCall
  /\ rLast = R_NoResult

\* the service is constructed with a retry configuration
RetryConstruct ==
  \E config \in R_Configs :
    /\ rCall.pc = "idle"
    /\ rLast = R_NoResult
    /\ config # rConfig
    /\ rConfig' = config
    /\ UNCHANGED <<rCall, rLast>>
    /\ UNCHANGED notRetry

\* withRetry(operation) up to the first test of the loop
withRetry ==
  /\ rCall.pc = "idle"
  /\ rCall' = [R_IdleCall EXCEPT !.pc = "loop"]
  /\ UNCHANGED <<rConfig, rLast>>
  /\ UNCHANGED notRetry

\* the RetryResult withRetry returns
R_return(success, attempts, lastError) ==
  /\ rLast' = [success |-> success, attempts |-> attempts,
               totalTime |-> rCall.elapsed, lastError |-> lastError]
  /\ rCall' = R_IdleCall

\* one turn of the loop (lines 42-71): run the operation, then return,
\* break, sleep or fall out of the loop
withRetryAttempt ==
  \E outcome \in R_Outcomes :
    LET attempts == rCall.attempts + 1 IN
    /\ rCall.pc = "loop"
    /\ rCall.attempts < rConfig.maxAttempts
    /\ IF outcome = "ok"
       THEN R_return(TRUE, attempts, rCall.lastError)
       ELSE IF ~isRetryable(rConfig, outcome)
       THEN R_return(FALSE, attempts, outcome)
       ELSE IF attempts < rConfig.maxAttempts
       THEN \E jitter \in R_Jitters(attempts) :
              /\ rCall' = [rCall EXCEPT !.pc = "sleeping", !.attempts = attempts,
                                        !.lastError = outcome,
                                        !.delay = calculateDelay(attempts, jitter)]
              /\ UNCHANGED rLast
       ELSE R_return(FALSE, attempts, outcome)
    /\ UNCHANGED rConfig
    /\ UNCHANGED notRetry

\* `await this.sleep(delay)` returns
withRetrySleepDone ==
  /\ rCall.pc = "sleeping"
  /\ rCall' = [rCall EXCEPT !.pc = "loop", !.elapsed = rCall.elapsed + rCall.delay]
  /\ UNCHANGED <<rConfig, rLast>>
  /\ UNCHANGED notRetry

RetryNext ==
  \/ RetryConstruct
  \/ withRetry
  \/ withRetryAttempt
  \/ withRetrySleepDone

(***************************************************************************)
(* The guard evaluation lock (src/state-machine/guards.ts, lines 21-43     *)
(* and 189-200)                                                            *)
(***************************************************************************)
NumGuardCallers == 3
MaxGuardCalls == 4       \* calls of evaluateGuardsWithLock in one behaviour

GuardCallers == 1..NumGuardCallers

GL_IdleCall == [pc |-> "idle", resolved |-> FALSE]

GuardLockInit ==
  /\ guardEvaluationLock = FALSE
  /\ lockQueue = <<>>
  /\ glCalls = [c \in GuardCallers |-> GL_IdleCall]
  /\ glQueued = <<>>
  /\ glAdmitted = <<>>
  /\ glStarted = 0
  /\ glLast = [caller |-> 0, outcome |-> "none"]

\* the callers whose acquireLock promise is resolved and that have not yet
\* called releaseLock
GL_Holders == {c \in GuardCallers : glCalls[c].pc = "awaiting" /\ glCalls[c].resolved}

\* releaseLock() handing the lock to the resolver pushed last
releaseLock_lastFirst(calls) ==
  IF lockQueue # <<>>
  THEN LET next == lockQueue[Len(lockQueue)] IN
       /\ lockQueue' = SubSeq(lockQueue, 1, Len(lockQueue) - 1)
       /\ glCalls' = [calls EXCEPT ![next].resolved = TRUE]
       /\ glAdmitted' = Append(glAdmitted, next)
       /\ UNCHANGED guardEvaluationLock
  ELSE /\ guardEvaluationLock' = FALSE
       /\ glCalls' = calls
       /\ UNCHANGED <<lockQueue, glAdmitted>>

\* acquireLock(): the executor of the promise runs in the caller's turn
acquireLock(c) ==
  IF ~guardEvaluationLock
  THEN /\ guardEvaluationLock' = TRUE
       /\ glCalls' = [glCalls EXCEPT ![c] = [pc |-> "awaiting", resolved |-> TRUE]]
       /\ UNCHANGED <<lockQueue, glQueued>>
  ELSE /\ lockQueue' = Append(lockQueue, c)
       /\ glQueued' = Append(glQueued, c)
       /\ glCalls' = [glCalls EXCEPT ![c] = [pc |-> "awaiting", resolved |-> FALSE]]
       /\ UNCHANGED guardEvaluationLock

\* releaseLock(): lockQueue.shift() and call it, or clear the flag
releaseLock(calls) ==
  IF lockQueue # <<>>
  THEN LET next == Head(lockQueue) IN
       /\ lockQueue' = Tail(lockQueue)
       /\ glCalls' = [calls EXCEPT ![next].resolved = TRUE]
       /\ glAdmitted' = Append(glAdmitted, next)
       /\ UNCHANGED guardEvaluationLock
  ELSE /\ guardEvaluationLock' = FALSE
       /\ glCalls' = calls
       /\ UNCHANGED <<lockQueue, glAdmitted>>

\* evaluateGuardsWithLock(guards, context) up to `await acquireLock()`
evaluateGuardsWithLock(c) ==
  /\ glCalls[c].pc = "idle"
  /\ glStarted < MaxGuardCalls
  /\ glStarted' = glStarted + 1
  /\ acquireLock(c)
  /\ UNCHANGED <<glAdmitted, glLast>>
  /\ UNCHANGED notGuardLock

\* the continuation without the finally block: releaseLock() is called only
\* when evaluateGuardsSync returns
evaluateGuardsWithLockResume_noFinally(c) ==
  \E outcome \in {"returned", "threw"} :
    /\ glCalls[c].pc = "awaiting"
    /\ glCalls[c].resolved
    /\ IF outcome = "returned"
       THEN releaseLock([glCalls EXCEPT ![c] = GL_IdleCall])
       ELSE /\ glCalls' = [glCalls EXCEPT ![c] = GL_IdleCall]
            /\ UNCHANGED <<guardEvaluationLock, lockQueue, glAdmitted>>
    /\ glLast' = [caller |-> c, outcome |-> outcome]
    /\ UNCHANGED <<glQueued, glStarted>>
    /\ UNCHANGED notGuardLock

\* the continuation after the await: evaluateGuardsSync returns or throws,
\* and the finally block calls releaseLock()
evaluateGuardsWithLockResume(c) ==
  \E outcome \in {"returned", "threw"} :
    /\ glCalls[c].pc = "awaiting"
    /\ glCalls[c].resolved
    /\ releaseLock([glCalls EXCEPT ![c] = GL_IdleCall])
    /\ glLast' = [caller |-> c, outcome |-> outcome]
    /\ UNCHANGED <<glQueued, glStarted>>
    /\ UNCHANGED notGuardLock

GuardLockNext ==
  \E c \in GuardCallers :
    \/ evaluateGuardsWithLock(c)
    \/ evaluateGuardsWithLockResume(c)

(***************************************************************************)
(* LiquidityMetrics.detectVolatilityRegime (src/unnamed/part_006;          *)
(* volatilities in hundredths)                                             *)
(***************************************************************************)
LM_MaxVol == 100         \* the largest annualized volatility drawn
LM_MaxReturns == 3       \* the longest series of returns

DEFAULT_VOLATILITY_THRESHOLDS ==
  [low |-> 15, normal |-> 30, elevated |-> 50, high |-> 80]

\* thresholds given to the constructor
LM_CustomThresholds ==
  [low |-> 10, normal |-> 20, elevated |-> 40, high |-> 60]

LM_Vols == 0..LM_MaxVol

\* detectVolatilityRegime comparing with < where the code compares with <=
detectVolatilityRegime_strict(volatilityThresholds, returnsLength, annualizedVol) ==
  IF returnsLength < 2 THEN "normal"
  ELSE IF annualizedVol < volatilityThresholds.low THEN "low"
  ELSE IF annualizedVol < volatilityThresholds.normal THEN "normal"
  ELSE IF annualizedVol < volatilityThresholds.elevated THEN "elevated"
  ELSE IF annualizedVol < volatilityThresholds.high THEN "high"
  ELSE "extreme"

\* calculateAnnualizedVolatility(returns): 0 for fewer than two returns, else
\* dailyVol * Math.sqrt(365), where vol is that product
calculateAnnualizedVolatility(returnsLength, vol) ==
  IF returnsLength < 2 THEN 0 ELSE vol

\* detectVolatilityRegime(returns), annualizedVol being what
\* calculateAnnualizedVolatility(returns) returns
detectVolatilityRegime(volatilityThresholds, returnsLength, annualizedVol) ==
  IF returnsLength < 2 THEN "normal"
  ELSE IF annualizedVol <= volatilityThresholds.low THEN "low"
  ELSE IF annualizedVol <= volatilityThresholds.normal THEN "normal"
  ELSE IF annualizedVol <= volatilityThresholds.elevated THEN "elevated"
  ELSE IF annualizedVol <= volatilityThresholds.high THEN "high"
  ELSE "extreme"

MetricsInit ==
  /\ lmThresholds = DEFAULT_VOLATILITY_THRESHOLDS
  /\ lmLast = [returnsLength |-> 0, annualizedVol |-> 0, regime |-> "none"]

\* new LiquidityMetrics(config, thresholds)
MetricsConstruct ==
  /\ lmLast.regime = "none"
  /\ lmThresholds = DEFAULT_VOLATILITY_THRESHOLDS
  /\ lmThresholds' = LM_CustomThresholds
  /\ UNCHANGED lmLast
  /\ UNCHANGED notMetrics

detectVolatilityRegimeCall ==
  \E returnsLength \in 0..LM_MaxReturns, vol \in LM_Vols :
    LET annualizedVol == calculateAnnualizedVolatility(returnsLength, vol) IN
    /\ lmLast' = [returnsLength |-> returnsLength, annualizedVol |-> annualizedVol,
                  regime |-> detectVolatilityRegime(lmThresholds, returnsLength,
                                                    annualizedVol)]
    /\ UNCHANGED lmThresholds
    /\ UNCHANGED notMetrics

MetricsNext ==
  \/ MetricsConstruct
  \/ detectVolatilityRegimeCall

(***************************************************************************)
(* TreasurySentinelEventEmitter (src/events/EventEmitter.ts)               *)
(***************************************************************************)
EE_MaxSubscriptions == 2   \* on() and once() calls in one behaviour
EE_NumEmitCalls == 2       \* emit calls in progress at the same time
EE_MaxEmits == 3           \* emit calls in one behaviour

EE_EventTypes == {"risk", "payment"}
EE_EmitCalls == 1..EE_NumEmitCalls
EE_Ids == 1..EE_MaxSubscriptions

EE_IdleEmit == [pc |-> "idle", onceHandlerIds |-> {}]

EventEmitterInit ==
  /\ eeSubscriptions = <<>>
  /\ eeEmits = [c \in EE_EmitCalls |-> EE_IdleEmit]
  /\ eeInvoked = <<>>
  /\ eeEmitted = 0

\* subs.filter((sub) => sub.id !== id)
EE_filterOut(subs, ids) == SelectSeq(subs, LAMBDA sub : sub.id \notin ids)

\* getHandlersForEvent(eventType): the ids of the specific and the wildcard
\* subscriptions
getHandlersForEvent(eventType) ==
  {eeSubscriptions[i].id : i \in
     {j \in DOMAIN eeSubscriptions : eeSubscriptions[j].eventType \in {eventType, "*"}}}

\* subscribe(eventType, handler, once); the subscription gets a fresh id
subscribe(eventType, once) ==
  LET id == Len(eeInvoked) + 1 IN
  /\ id <= EE_MaxSubscriptions
  /\ eeSubscriptions' = Append(eeSubscriptions,
                               [id |-> id, eventType |-> eventType, once |-> once])
  /\ eeInvoked' = Append(eeInvoked, [once |-> once, count |-> 0])
  /\ UNCHANGED <<eeEmits, eeEmitted>>

on ==
  /\ \E eventType \in EE_EventTypes \cup {"*"} : subscribe(eventType, FALSE)
  /\ UNCHANGED notEventEmitter

once ==
  /\ \E eventType \in EE_EventTypes \cup {"*"} : subscribe(eventType, TRUE)
  /\ UNCHANGED notEventEmitter

\* the function on() and once() return
unsubscribe ==
  \E i \in DOMAIN eeSubscriptions :
    /\ eeSubscriptions' = EE_filterOut(eeSubscriptions, {eeSubscriptions[i].id})
    /\ UNCHANGED <<eeEmits, eeInvoked, eeEmitted>>
    /\ UNCHANGED notEventEmitter

\* emit(event) up to `await Promise.all(executeHandlers)`: every handler of
\* the event is called; a once handler that does not throw is noted in
\* onceHandlerIds before the await returns
emit(c) ==
  \E eventType \in EE_EventTypes :
    LET handlers == getHandlersForEvent(eventType) IN
    \E threw \in SUBSET handlers :
      /\ eeEmits[c].pc = "idle"
      /\ eeEmitted < EE_MaxEmits
      /\ eeEmitted' = eeEmitted + 1
      /\ eeInvoked' = [id \in DOMAIN eeInvoked |->
                         IF id \in handlers
                         THEN [eeInvoked[id] EXCEPT !.count = @ + 1]
                         ELSE eeInvoked[id]]
      /\ eeEmits' = [eeEmits EXCEPT ![c] =
                       [pc |-> "awaiting",
                        onceHandlerIds |->
                          {id \in handlers \ threw : eeInvoked[id].once}]]
      /\ UNCHANGED eeSubscriptions
      /\ UNCHANGED notEventEmitter

\* emit after the await: removeSubscriptionById for each id noted
emitResume(c) ==
  /\ eeEmits[c].pc = "awaiting"
  /\ eeSubscriptions' = EE_filterOut(eeSubscriptions, eeEmits[c].onceHandlerIds)
  /\ eeEmits' = [eeEmits EXCEPT ![c] = EE_IdleEmit]
  /\ UNCHANGED <<eeInvoked, eeEmitted>>
  /\ UNCHANGED notEventEmitter

EventEmitterNext ==
  \/ on
  \/ once
  \/ unsubscribe
  \/ \E c \in EE_EmitCalls : emit(c)
  \/ \E c \in EE_EmitCalls : emitResume(c)

(***************************************************************************)
(* CircuitBreakerService (src/unnamed/part_010, lines 114-198; time unit:  *)
(* 60000 ms)                                                               *)
(***************************************************************************)
failureThreshold == 5
recoveryTimeout == 1
successThreshold == 3
CB_NumCalls == 2         \* withCircuitBreaker calls in progress at the same time
CB_MaxCalls == 9         \* withCircuitBreaker calls in one behaviour
CB_MaxTime == 3          \* clock ticks in one behaviour

CB_Calls == 1..CB_NumCalls

CircuitInit ==
  /\ cb = [circuitState |-> "closed", failureCount |-> 0, lastFailureTime |-> 0,
           consecutiveSuccesses |-> 0]
  /\ cbNow = 1
  /\ cbCalls = [c \in CB_Calls |-> "idle"]
  /\ cbStarted = 0
  /\ cbRun = 0
  /\ cbLast = [op |-> "none", outcome |-> "none"]

\* the test of line 143 answering yes whatever the time
CB_recoveryElapsed_always(now, lastFailureTime) == TRUE

\* Date.now() - this.lastFailureTime > this.recoveryTimeout
CB_recoveryElapsed(now, lastFailureTime) == now - lastFailureTime > recoveryTimeout

\* onSuccess() closing the circuit at the first success while half-open
onSuccess_firstSuccess(s) ==
  LET counted == [s EXCEPT !.failureCount = 0,
                           !.consecutiveSuccesses = @ + 1] IN
  IF s.circuitState = "half-open"
  THEN [counted EXCEPT !.circuitState = "closed"]
  ELSE [s EXCEPT !.failureCount = 0]

\* onSuccess()
onSuccess(s) ==
  LET counted == [s EXCEPT !.failureCount = 0,
                           !.consecutiveSuccesses = @ + 1] IN
  IF s.circuitState = "half-open"
  THEN IF counted.consecutiveSuccesses >= successThreshold
       THEN [counted EXCEPT !.circuitState = "closed"]
       ELSE counted
  ELSE [s EXCEPT !.failureCount = 0]

\* onFailure(error) at time now
onFailure(s, now) ==
  LET counted == [s EXCEPT !.failureCount = @ + 1,
                           !.lastFailureTime = now,
                           !.consecutiveSuccesses = 0] IN
  IF s.circuitState = "half-open"
  THEN [counted EXCEPT !.circuitState = "open"]
  ELSE IF counted.failureCount >= failureThreshold
  THEN [counted EXCEPT !.circuitState = "open"]
  ELSE counted

\* withCircuitBreaker(operation) up to `await operation()`: it throws while
\* the circuit is open, else the operation is started
withCircuitBreaker(c) ==
  /\ cbCalls[c] = "idle"
  /\ cbStarted < CB_MaxCalls
  /\ cbStarted' = cbStarted + 1
  /\ IF cb.circuitState = "open" /\ ~CB_recoveryElapsed(cbNow, cb.lastFailureTime)
     THEN /\ cbLast' = [op |-> "withCircuitBreaker", outcome |-> "circuit_open"]
          /\ UNCHANGED <<cb, cbCalls, cbRun>>
     ELSE /\ cbCalls' = [cbCalls EXCEPT ![c] = "running"]
          /\ cbLast' = [op |-> "withCircuitBreaker", outcome |-> "started"]
          /\ IF cb.circuitState = "open"
             THEN /\ cb' = [cb EXCEPT !.circuitState = "half-open",
                                      !.consecutiveSuccesses = 0]
                  /\ cbRun' = 0
             ELSE UNCHANGED <<cb, cbRun>>
  /\ UNCHANGED cbNow
  /\ UNCHANGED notCircuit

\* the operation resolves: onSuccess() and the result is returned
withCircuitBreakerSuccess(c) ==
  /\ cbCalls[c] = "running"
  /\ cbCalls' = [cbCalls EXCEPT ![c] = "idle"]
  /\ cb' = onSuccess(cb)
  /\ cbRun' = cbRun + 1
  /\ cbLast' = [op |-> "withCircuitBreaker", outcome |-> "success"]
  /\ UNCHANGED <<cbNow, cbStarted>>
  /\ UNCHANGED notCircuit

\* the operation rejects: onFailure(error) and the error is thrown again
withCircuitBreakerFailure(c) ==
  /\ cbCalls[c] = "running"
  /\ cbCalls' = [cbCalls EXCEPT ![c] = "idle"]
  /\ cb' = onFailure(cb, cbNow)
  /\ cbRun' = 0
  /\ cbLast' = [op |-> "withCircuitBreaker", outcome |-> "failure"]
  /\ UNCHANGED <<cbNow, cbStarted>>
  /\ UNCHANGED notCircuit

resetCircuit ==
  /\ cb.circuitState # "closed" \/ cb.failureCount # 0
  /\ cb' = [cb EXCEPT !.circuitState = "closed", !.failureCount = 0,
                      !.consecutiveSuccesses = 0]
  /\ cbRun' = 0
  /\ cbLast' = [op |-> "resetCircuit", outcome |-> "reset"]
  /\ UNCHANGED <<cbNow, cbCalls, cbStarted>>
  /\ UNCHANGED notCircuit

CircuitTick ==
  /\ cbNow < CB_MaxTime + 1
  /\ cbNow' = cbNow + 1
  /\ UNCHANGED <<cb, cbCalls, cbStarted, cbRun, cbLast>>
  /\ UNCHANGED notCircuit

CircuitNext ==
  \/ \E c \in CB_Calls : withCircuitBreaker(c)
  \/ \E c \in CB_Calls : withCircuitBreakerSuccess(c)
  \/ \E c \in CB_Calls : withCircuitBreakerFailure(c)
  \/ resetCircuit
  \/ CircuitTick

Init ==
  /\ KaikoInit
  /\ BudgetInit
  /\ VerifierInit
  /\ EscDefaultInit
  /\ RunnerInit
  /\ Http402Init
  /\ RetryInit
  /\ MetricsInit
  /\ EventEmitterInit
  /\ CircuitInit
  /\ GuardLockInit

InitEsc ==
  /\ KaikoInit
  /\ BudgetInit
  /\ VerifierInit
  /\ EscInit
  /\ RunnerInit
  /\ Http402Init
  /\ RetryInit
  /\ MetricsInit
  /\ EventEmitterInit
  /\ CircuitInit
  /\ GuardLockInit

SpecKaiko == Init /\ [][KaikoNext]_vars

SpecBudget == Init /\ [][BudgetNext]_vars

SpecVerifier == Init /\ [][VerifierNext]_vars

SpecEsc == InitEsc /\ [][EscNext]_vars

SpecRunner == Init /\ [][RunnerNext]_vars

SpecHttp402 == Init /\ [][Http402Next]_vars

SpecRetry == Init /\ [][RetryNext]_vars

SpecMetrics == Init /\ [][MetricsNext]_vars

SpecEventEmitter == Init /\ [][EventEmitterNext]_vars

SpecCircuit == Init /\ [][CircuitNext]_vars

SpecGuardLock == Init /\ [][GuardLockNext]_vars

\* the continuation of a resolved promise is a microtask, which the event
\* loop runs
SpecGuardLockFair ==
  /\ Init
  /\ [][GuardLockNext]_vars
  /\ \A c \in GuardCallers : WF_vars(evaluateGuardsWithLockResume(c))

\* C1: after any sequence of data requests, submitPayment calls and
\* resetBudget calls, spentUsdc never exceeds totalBudgetUsdc
\* (remainingUsdc is never negative).
C1_SpentWithinBudget ==
  /\ kBudget.spentUsdc <= kBudget.totalBudgetUsdc
  /\ kBudget.remainingUsdc >= 0

\* C2: spent <= maxBudgetUSDC at every observable point of the
\* BudgetEnforcer, for any interleaving of its five operations and any
\* arguments.
C2_SpentWithinMax == beSpent <= BE_maxBudgetUSDC

\* C3: for any interleaving of concurrent verifyPendingSettlement and
\* pollForSettlement calls, a given transaction hash makes at most one
\* settlement VERIFIED.
C3_OneSettlementPerTx ==
  \A h \in TxHashes :
    Cardinality({sid \in DOMAIN svSettlements :
                   /\ svSettlements[sid].status = "VERIFIED"
                   /\ svSettlements[sid].verification.transactionHash = h}) <= 1

\* C4: for every sequence of transition attempts that starts with spend 0,
\* the sum of the costs of the recorded (successful) transitions equals the
\* cumulative spend; a rejected attempt records nothing and adds no spend.
C4_CostSumEqualsSpend ==
  /\ (escMachine = "A" /\ aConfig.currentBudgetUsed = 0) => getTotalCost = aBudgetUsed
  /\ escMachine = "C" => SumCost(cHistory) = cCurrentState.context.currentSpend

\* C4 witness: machine A started with spend 0, has recorded paid
\* transitions and has then rejected an attempt.
C4_Witness ==
  /\ escMachine = "A"
  /\ aConfig.currentBudgetUsed = 0
  /\ Len(aTransitionHistory) >= 2
  /\ aBudgetUsed > 0
  /\ aLast.op = "transitionTo"
  /\ ~aLast.success

\* C5: every successful transition that raises the level raises it by
\* exactly one, and a request that would skip a level upward is rejected
\* (sequentialGuard, TRANSITION_CONFIGS, checkEscalationThreshold).
C5_SingleStepUpward ==
  /\ (aLast.success /\ indexOf(aLast.newLevel) > indexOf(aLast.previousLevel))
       => indexOf(aLast.newLevel) = indexOf(aLast.previousLevel) + 1
  /\ indexOf(aLast.targetLevel) > indexOf(aLast.previousLevel) + 1 => ~aLast.success
  /\ (/\ cLast.outcome = "ok"
      /\ cLast.op \in {"transition", "processEvent"}
      /\ cLast.from # "BUDGET_BLOCKED"
      /\ cLast.entered # "BUDGET_BLOCKED"
      /\ C_index(cLast.entered) > C_index(cLast.from))
       => C_index(cLast.entered) = C_index(cLast.from) + 1
  /\ (/\ cLast.op = "transition"
      /\ cLast.from # "BUDGET_BLOCKED"
      /\ cLast.to # "BUDGET_BLOCKED"
      /\ C_index(cLast.to) > C_index(cLast.from) + 1)
       => cLast.outcome # "ok"
  /\ (gLast.threshold /\ indexOf(gLast.targetLevel) > indexOf(gLast.currentLevel))
       => indexOf(gLast.targetLevel) = indexOf(gLast.currentLevel) + 1
  /\ indexOf(gLast.targetLevel) > indexOf(gLast.currentLevel) + 1 => ~gLast.allowed

\* C5 witness: machine A has made a transition and then rejected a request
\* to go up two or more levels that the budget alone would have allowed.
C5_Witness ==
  /\ escMachine = "A"
  /\ Len(aTransitionHistory) >= 1
  /\ aLast.op = "transitionTo"
  /\ indexOf(aLast.targetLevel) > indexOf(aLast.previousLevel) + 1
  /\ budgetGuard(aLast.previousLevel, aLast.targetLevel)
  /\ ~aLast.success

\* C6: when a paid upward transition is requested (its own guard passing)
\* and spend + cost exceeds the limit, the call ends with the machine in
\* BUDGET_BLOCKED, without an error, and the spend is unchanged.
C6_RedirectToBudgetBlocked ==
  [][LET context == cCurrentState.context
         requested == findTransition(cCurrentState.level, cLast'.to)
     IN (/\ escMachine = "C"
         /\ escNow' = escNow
         /\ cLast'.op = "transition"
         /\ cLast'.from = cCurrentState.level
         /\ requested # NoTransitionConfig
         /\ requested.requiresPayment
         /\ evaluateGuard(requested.guard, context)
         /\ context.currentSpend + requested.cost > context.budgetLimit)
        => (/\ cCurrentState'.level = "BUDGET_BLOCKED"
            /\ cLast'.outcome = "ok"
            /\ cCurrentState'.context.currentSpend = context.currentSpend)]_vars

\* C7: no successful transition into BUDGET_BLOCKED occurs while the
\* remaining budget is at or above the minimum operational amount.
C7_NoBlockWhileOperational ==
  /\ (eLast.success /\ eLast.newState = "BUDGET_BLOCKED")
       => eLast.remaining < MIN_OPERATIONAL
  /\ (/\ cLast.op \in {"transition", "processEvent"}
      /\ cLast.outcome = "ok"
      /\ cLast.entered = "BUDGET_BLOCKED")
       => cCurrentState.context.budgetLimit - cCurrentState.context.currentSpend
            < MIN_OPERATIONAL

\* C8: at each of the levels L2, L3, L4 and L5 a transition to
\* BUDGET_BLOCKED is defined.
C8_BlockDefinedFromPaidLevels ==
  (escMachine = "C" /\ cCurrentState.level \in
     {"L2_ALERT", "L3_MARKET_DATA", "L4_CRITICAL", "L5_EMERGENCY"})
    => findTransition(cCurrentState.level, "BUDGET_BLOCKED") # NoTransitionConfig

\* C9: the only level entered from BUDGET_BLOCKED is L1, and only when the
\* budget has been restored; no operation moves the machine elsewhere.
C9_BlockedExitsOnlyToL1 ==
  [][(/\ escMachine = "C"
      /\ cCurrentState.level = "BUDGET_BLOCKED"
      /\ cCurrentState'.level # "BUDGET_BLOCKED")
       => (/\ cCurrentState'.level = "L1_MONITOR"
           /\ evaluateGuard("hasBudgetRestored", cCurrentState.context))]_vars

\* C10: a rejected transition attempt (undefined transition or failed
\* guard) leaves level, entry time and spend unchanged; the level changes
\* only in a successful transition (or a reset of machine C).
C10_RejectedAttemptChangesNothing ==
  [][/\ (escMachine = "A" /\ ~aLast'.success)
          => (aCurrentState' = aCurrentState /\ aBudgetUsed' = aBudgetUsed)
     /\ aCurrentState'.level # aCurrentState.level => aLast'.success
     /\ (escMachine = "C" /\ cLast'.outcome \in {"invalid", "guard", "null"})
          => cCurrentState' = cCurrentState
     /\ cCurrentState'.level # cCurrentState.level
          => (cLast'.outcome = "ok" \/ cLast'.op = "reset")
     /\ ~eLast'.success => eLast'.newState = eLast'.currentState]_vars

\* C10 witness: machine A has rejected an attempt made after the clock
\* moved past the entry time of a level it had entered by a transition.
C10_Witness ==
  /\ escMachine = "A"
  /\ Len(aTransitionHistory) >= 1
  /\ aLast.op \in {"transitionTo", "escalate", "deescalate"}
  /\ ~aLast.success
  /\ escNow > aCurrentState.enteredAt

\* C11: every transition attempt of machine A, successful or rejected,
\* appends exactly one record to the machine's transition history.
C11_EveryAttemptRecorded ==
  [][(/\ escMachine = "A"
      /\ escNow' = escNow
      /\ aLast'.op \in {"transitionTo", "escalate", "deescalate"})
       => Len(aTransitionHistory') = Len(aTransitionHistory) + 1]_vars

\* C12: every successful de-escalation (target below the current level) and
\* every free transition is recorded with cost 0 and leaves the cumulative
\* spend unchanged.
C12_DeescalationIsFree ==
  [][/\ (/\ escMachine = "A"
          /\ escNow' = escNow
          /\ aLast'.success
          /\ indexOf(aLast'.targetLevel) < indexOf(aLast'.previousLevel))
           => (/\ aLast'.cost = 0
               /\ aTransitionHistory'[Len(aTransitionHistory')].cost = 0
               /\ aBudgetUsed' = aBudgetUsed)
     /\ (/\ escMachine = "C"
          /\ escNow' = escNow
          /\ cLast'.op \in {"transition", "processEvent"}
          /\ cLast'.outcome = "ok"
          /\ Len(cHistory') = Len(cHistory) + 1
          /\ cHistory'[Len(cHistory')].cost = 0)
           => cCurrentState'.context.currentSpend
                = cCurrentState.context.currentSpend]_vars

\* C13: presenting a settlement that is already VERIFIED a second time, with
\* the same transaction hash, returns the same successful result as the
\* first time and changes nothing.
C13_ReplayIsIdempotent ==
  [][\A sid \in SettlementIds, tx \in TxHashes :
       (/\ SV_Known(sid)
        /\ svSettlements[sid].status = "VERIFIED"
        /\ svSettlements[sid].verification.transactionHash = tx
        /\ UNCHANGED <<svNow, svBlock>>
        /\ \E c \in VerifierCalls :
              SV_FreeSlot(c) /\ SV_verifyStart(c, "verify", sid, tx))
         => (/\ svLast' = SV_Result(TRUE, "VERIFIED", sid, "none")
             /\ svSettlements' = svSettlements
             /\ svVerifiedTx' = svVerifiedTx)]_vars

\* C14: once settlement A is VERIFIED with transaction hash h, a later
\* verifyPendingSettlement(B, h) for another settlement B returns a failure
\* at once: B does not become VERIFIED, and neither A nor the set of
\* consumed hashes changes.
C14_UsedTxRejected ==
  [][\A a \in SettlementIds, b \in SettlementIds, h \in TxHashes :
       (/\ a # b
        /\ a \in DOMAIN svSettlements
        /\ svSettlements[a].status = "VERIFIED"
        /\ svSettlements[a].verification.transactionHash = h
        /\ h \in svVerifiedTx
        /\ UNCHANGED <<svNow, svBlock>>
        /\ \E c \in VerifierCalls :
              SV_FreeSlot(c) /\ SV_verifyStart(c, "verify", b, h))
         => (/\ ~svLast'.success
             /\ svLast'.settlementId = b
             /\ svCalls' = svCalls
             /\ svSettlements'[a] = svSettlements[a]
             /\ svVerifiedTx' = svVerifiedTx
             /\ (b \in DOMAIN svSettlements /\ svSettlements[b].status # "VERIFIED")
                  => svSettlements'[b].status # "VERIFIED")]_vars

\* C14 witness: settlement A is VERIFIED with a consumed hash, and the last
\* call returned "transaction already used" for another settlement B, which
\* is known, not expired and not VERIFIED.
C14_Witness ==
  \E a \in DOMAIN svSettlements, b \in DOMAIN svSettlements :
    /\ a # b
    /\ svSettlements[a].status = "VERIFIED"
    /\ svSettlements[a].verification.transactionHash \in svVerifiedTx
    /\ svLast.settlementId = b
    /\ svLast.error = "Transaction already used"
    /\ svSettlements[b].inMap
    /\ svSettlements[b].status \notin {"VERIFIED", "EXPIRED"}

\* C15: at no time are two runs of the agent in status running.
C15_SingleFlight ==
  Cardinality({runId \in DOMAIN arRuns : arRuns[runId].status = "running"}) <= 1

\* C16: the run numbers assigned by createRun are unique and strictly
\* increasing in creation order, also when createRun calls overlap.
C16_RunNumbersIncrease ==
  \A i \in DOMAIN arRuns, j \in DOMAIN arRuns :
    i < j => arRuns[i].runNumber < arRuns[j].runNumber

\* C17: at most one caller at a time is inside a BudgetEnforcer critical
\* section (between acquireLock returning and releaseLock), and the lock is
\* held exactly while a caller is inside.
C17_OneCallerInCriticalSection ==
  /\ Cardinality({c \in BudgetCallers : beCallers[c].pc = "acquired"}) <= 1
  /\ beLocked <=> (\E c \in BudgetCallers : beCallers[c].pc = "acquired")

\* C17 witness: one caller is inside the critical section while another,
\* which found the lock taken, has been woken and is about to re-test it.
C17_Witness ==
  \E c \in BudgetCallers, d \in BudgetCallers :
    /\ c # d
    /\ beCallers[c].pc = "acquired"
    /\ beCallers[d].pc = "ready"

\* C18: a transition request (transitionTo/escalate/deescalate on machine A,
\* transition/processEvent on machine C) never takes the cumulative spend
\* from within the budget limit to above it; machine A, constructed with
\* spend <= limit, therefore never exceeds its limit.
C18_SpendWithinLimit ==
  [][/\ (escMachine = "A" /\ aBudgetUsed <= aConfig.budgetLimit)
          => aBudgetUsed' <= aConfig'.budgetLimit
     /\ (/\ escMachine = "C"
          /\ escNow' = escNow
          /\ cLast'.op \in {"transition", "processEvent"}
          /\ cCurrentState.context.currentSpend <= cCurrentState.context.budgetLimit)
           => cCurrentState'.context.currentSpend
                <= cCurrentState'.context.budgetLimit]_vars

\* C18 witness: machine A has spent part of its budget and has just
\* rejected an escalation whose cost would have exceeded the limit.
C18_Witness ==
  /\ escMachine = "A"
  /\ aBudgetUsed > aConfig.currentBudgetUsed
  /\ aLast.op = "escalate"
  /\ ~aLast.success
  /\ aLast.targetLevel # aLast.previousLevel
  /\ aBudgetUsed + ESCALATION_COSTS[aLast.targetLevel] > aConfig.budgetLimit

\* C19: a de-escalation attempted before the cooldown has elapsed since the
\* current level was entered is rejected and the level stays unchanged.
C19_DeescalationWaitsForCooldown ==
  [][(/\ escMachine = "A"
      /\ escNow' = escNow
      /\ aLast'.op = "deescalate"
      /\ aLast'.targetLevel # aLast'.previousLevel
      /\ aLast'.previousLevel = aCurrentState.level
      /\ ~cooldownExpiredGuard(aCurrentState.enteredAt, escNow))
       => (~aLast'.success /\ aCurrentState'.level = aCurrentState.level)]_vars

C21_NoVerificationAfterExpiry ==
  [][\A sid \in DOMAIN svSettlements :
       (/\ svSettlements[sid].status # "VERIFIED"
        /\ svSettlements'[sid].status = "VERIFIED")
         => svNow' <= svSettlements[sid].expiresAt]_vars

\* C22: a settlement is reported verified only if the receipt exists with
\* status success, it holds a USDC transfer to the configured recipient of
\* at least the expected amount, and the confirmations are at least the
\* configured threshold.
C22_VerifiedOnlyIfConfirmed ==
  hLast.result.verified =>
    /\ hLast.txReceipt.found
    /\ hLast.txReceipt.status = "0x1"
    /\ \E i \in DOMAIN hLast.txReceipt.logs :
          /\ hLast.txReceipt.logs[i].to = "recipient"
          /\ hLast.txReceipt.logs[i].value >= hLast.expectedAmount
    /\ hLast.currentBlock - hLast.txReceipt.blockNumber >= H_confirmationBlocks

\* C23: pollForSettlement on a known settlement returns only a VERIFIED
\* success or an EXPIRED timeout, never an unverified result.
C23_PollReturnsVerifiedOrExpired ==
  [][\A c \in VerifierCalls :
       (/\ svCalls[c].op = "poll"
        /\ svCalls[c].pc # "idle"
        /\ svCalls'[c].pc = "idle"
        /\ svLast'.status # "THROWN")
         => \/ (svLast'.success /\ svLast'.status = "VERIFIED")
            \/ (~svLast'.success /\ svLast'.status = "EXPIRED")]_vars

\* C24: once a run has reached a terminal status (completed, failed or
\* skipped), no later startRun, completeRun or failRun changes its status.
C24_TerminalStatusIsFinal ==
  [][\A runId \in DOMAIN arRuns :
       arRuns[runId].status \in {"completed", "failed", "skipped"}
         => arRuns'[runId].status = arRuns[runId].status]_vars

\* C25: replayRun with dryRun = true adds or changes no persisted run: no
\* step of such a call changes the table agent_runs.
C25_DryRunReplayPersistsNothing ==
  [][\A c \in RunnerCalls :
       (/\ arCalls[c].op = "replayRun"
        /\ arCalls[c].dryRun
        /\ arCalls'[c] # arCalls[c])
         => arRuns' = arRuns]_vars

\* C26: between two resets the spent counter of the BudgetEnforcer never
\* decreases and is never negative, whatever operation is called with
\* whatever amount.
C26_SpentMonotonic ==
  [][(\A c \in BudgetCallers :
        ~(beCallers[c].pc = "acquired" /\ beCallers[c].op = "reset"))
       => (beSpent' >= beSpent /\ beSpent' >= 0)]_vars

\* C27: getStatus().isBlocked is true if and only if the remaining budget
\* it reports is below the minimum operational amount (0.05 USDC).
C27_BlockedIffBelowMinimum ==
  beLast.op = "getStatus"
    => (BE_getStatus(beSpent).isBlocked
          <=> BE_getStatus(beSpent).remaining < MIN_OPERATIONAL)

\* C28: an RPC or network failure during verification never leaves the
\* SettlementVerifier as an exception: every call returns a result.
C28_NoExceptionFromVerifier == svLast.status # "THROWN"

\* C29: with the default retry configuration, withRetry attempts an
\* operation that keeps failing with a retryable error exactly 5 times in
\* total and then returns a failure result.
C29_FiveAttemptsByDefault ==
  (/\ rConfig = DEFAULT_RETRY_CONFIG
   /\ rLast # R_NoResult
   /\ ~rLast.success)
    => rLast.attempts = 5

\* C30: evaluateGuardsWithLock serializes guard evaluation: at most one
\* caller is between acquireLock and releaseLock at any time, and the callers
\* that had to wait are admitted in the order in which they queued.
C30_GuardEvaluationSerialized ==
  /\ Cardinality(GL_Holders) <= 1
  /\ Len(glAdmitted) <= Len(glQueued)
  /\ \A i \in 1..Len(glAdmitted) : glAdmitted[i] = glQueued[i]

\* two callers waited behind a holder at the same time and both have since
\* been admitted
C30_Witness ==
  /\ Len(glAdmitted) >= 2
  /\ glAdmitted[1] # glAdmitted[2]
  /\ glStarted >= 3
  /\ \E c \in GuardCallers : glLast.caller = c /\ c = glAdmitted[1]
  /\ GL_Holders = {glAdmitted[2]}

\* C31: with the default thresholds, detectVolatilityRegime classifies the
\* annualized volatility v it computed as LOW for v <= 0.15, NORMAL for
\* 0.15 < v <= 0.30, ELEVATED for 0.30 < v <= 0.50, HIGH for
\* 0.50 < v <= 0.80 and EXTREME above: a boundary value falls in the lower
\* bucket.
C31_BoundaryClassifiesDownward ==
  (/\ lmThresholds = DEFAULT_VOLATILITY_THRESHOLDS
   /\ lmLast.returnsLength >= 2)
    => LET v == lmLast.annualizedVol IN
       /\ (v <= 15) => lmLast.regime = "low"
       /\ (15 < v /\ v <= 30) => lmLast.regime = "normal"
       /\ (30 < v /\ v <= 50) => lmLast.regime = "elevated"
       /\ (50 < v /\ v <= 80) => lmLast.regime = "high"
       /\ (80 < v) => lmLast.regime = "extreme"

\* a series of returns whose annualized volatility is exactly 0.30 was
\* classified NORMAL under the default thresholds
C31_Witness ==
  /\ lmThresholds = DEFAULT_VOLATILITY_THRESHOLDS
  /\ lmLast.returnsLength >= 2
  /\ lmLast.annualizedVol = 30
  /\ lmLast.regime = "normal"

\* C32: each invoice is charged at most once: for any interleaving of
\* submitPayment calls, at most one receipt is recorded for an invoice id (and
\* so its amount is added to spentUsdc at most once).
C32_InvoiceChargedOnce ==
  \A i, j \in DOMAIN kCompleted :
    kCompleted[i].invoiceId = kCompleted[j].invoiceId => i = j

\* C33: VERIFIED is a terminal settlement status: once a settlement is
\* VERIFIED, no later verifyPendingSettlement, pollForSettlement or
\* cleanupExpiredSettlements step changes its status or removes it.
C33_VerifiedIsTerminal ==
  [][\A sid \in DOMAIN svSettlements :
       (svSettlements[sid].inMap /\ svSettlements[sid].status = "VERIFIED")
         => /\ svSettlements'[sid].inMap
            /\ svSettlements'[sid].status = "VERIFIED"]_vars

\* C34: in the event-driven state table, budget exhaustion leads to
\* BUDGET_BLOCKED from any state: in every state other than BUDGET_BLOCKED,
\* when the budget is exhausted the event BUDGET_EXHAUSTED is accepted and
\* moves the machine to BUDGET_BLOCKED.
C34_ExhaustionBlocksFromAnyState ==
  (/\ eLast.event = "BUDGET_EXHAUSTED"
   /\ eLast.currentState # "BUDGET_BLOCKED"
   /\ eLast.remaining < MIN_VIABLE_PAYMENT)
    => (eLast.success /\ eLast.newState = "BUDGET_BLOCKED")

\* C35: a transition request whose target equals the current level is a
\* no-op: it is allowed, charges no cost and leaves the cumulative spend
\* unchanged.
C35_SameLevelIsNoOp ==
  [][(/\ escMachine = "A"
      /\ escNow' = escNow
      /\ aLast'.op = "transitionTo"
      /\ aLast'.targetLevel = aCurrentState.level)
       => /\ aLast'.success
          /\ aLast'.cost = 0
          /\ aBudgetUsed' = aBudgetUsed]_vars

\* C36: a handler registered with once() is invoked for at most one event,
\* for any sequence or overlap of emit calls and also when handlers throw.
C36_OnceHandlerRunsOnce ==
  \A id \in DOMAIN eeInvoked : eeInvoked[id].once => eeInvoked[id].count <= 1

\* C37: the guard-evaluation lock is always released: every caller that
\* waits in evaluateGuardsWithLock is eventually admitted, also when a guard
\* evaluation throws, and the lock is free whenever no evaluation is running
\* or queued.
C37_LockAlwaysReleased ==
  /\ \A c \in GuardCallers :
        (glCalls[c].pc = "awaiting" /\ ~glCalls[c].resolved) ~> (c \in GL_Holders)
  /\ []((\A c \in GuardCallers : glCalls[c].pc = "idle") => ~guardEvaluationLock)

\* a caller that waited was admitted by the release of an evaluation that
\* threw
C37_Witness ==
  /\ glLast.outcome = "threw"
  /\ glAdmitted # <<>>
  /\ glAdmitted[Len(glAdmitted)] \in GL_Holders
  /\ glLast.caller # glAdmitted[Len(glAdmitted)]

\* C38: while the circuit breaker is open and no more than the recovery
\* timeout has passed since the last failure, withCircuitBreaker fails
\* immediately without invoking the wrapped operation.
C38_OpenCircuitRejects ==
  [][(/\ cbStarted' = cbStarted + 1
      /\ cb.circuitState = "open"
      /\ cbNow - cb.lastFailureTime <= recoveryTimeout)
       => /\ cbLast'.outcome = "circuit_open"
          /\ cbCalls' = cbCalls
          /\ cb' = cb]_vars

\* a call was rejected by the open circuit
C38_Witness ==
  /\ cb.circuitState = "open"
  /\ cbNow - cb.lastFailureTime <= recoveryTimeout
  /\ cbLast.outcome = "circuit_open"
  /\ \A c \in CB_Calls : cbCalls[c] = "idle"

\* C39: after the circuit breaker has opened, it returns to closed only
\* through half-open after successThreshold consecutive successful operations
\* with no failure in between, or through an explicit resetCircuit; any
\* failure while half-open reopens it.
C39_ClosesOnlyThroughHalfOpen ==
  [][/\ (cb.circuitState # "closed" /\ cb'.circuitState = "closed")
          => \/ cbLast'.op = "resetCircuit"
             \/ /\ cb.circuitState = "half-open"
                /\ cbLast'.outcome = "success"
                /\ cbRun' >= 3
     /\ (/\ cb.circuitState = "half-open"
         /\ \E c \in CB_Calls : cbCalls[c] = "running" /\ cbCalls'[c] = "idle"
         /\ cbLast'.outcome = "failure")
          => cb'.circuitState = "open"]_vars

\* the circuit opened, went half-open and was closed by the third success
C39_Witness ==
  /\ cb.circuitState = "closed"
  /\ cbLast.outcome = "success"
  /\ cbRun >= 3
  /\ cb.consecutiveSuccesses = 3
  /\ cb.lastFailureTime > 0

====
